---- MODULE Spec2Model ----
(***************************************************************************)
(* A model of the rasm WebAssembly interpreter (src/src/interpreter):      *)
(* the operand stack, the control stack, local_0_idx, the function         *)
(* registry, the table, and the interpreter's handlers for the control     *)
(* instructions, driven by exec_main and main_loop.                        *)
(*                                                                         *)
(* Representation of values.  An operand slot is a u64.  It is written     *)
(* here as a pair <<hi, lo>> of its two 32-bit words, each word written as *)
(* the signed 32-bit integer with the same bits (so -1 is 0xFFFFFFFF).     *)
(* An i32 or a u32 is written as the signed integer with the same bits.    *)
(* A usize that is a length or an index is a natural number;               *)
(* usize::MAX is written USIZE_MAX.                                        *)
(***************************************************************************)
EXTENDS Integers, Sequences, FiniteSets, TLC

\* ------------------------------------------------------------------ bounds
\* i32.const operands of the programs range over 0..MaxArg
MaxArg == 2
\* table and br_table indices of the programs range over -1..MaxIdx
MaxIdx == 5
\* memory.grow is asked for 0..MaxGrow pages; declared maxima reach MaxGrow + 1
MaxGrow == 2

\* --------------------------------------------------------------- constants
BLOCK_TYPE_I32 == -1
BLOCK_TYPE_I64 == -2
BLOCK_TYPE_F32 == -3
BLOCK_TYPE_F64 == -4
BLOCK_TYPE_EMPTY == -64
PAGE_SIZE == 65536
MAX_PAGE_COUNT == 65536
\* usize::MAX, which no length or index of the model equals
USIZE_MAX == -1

None == <<>>
Some(x) == <<x>>
IsSome(o) == Len(o) > 0
Unwrap(o) == o[1]

\* element idx (0-based, as in the source) of a Vec
At(vec, idx) == vec[idx + 1]

\* ------------------------------------------------------------ module data
FuncType(params, results) == [params_types |-> params, result_types |-> results]

\* An instruction: opcode and immediate arguments.
Instr(opcode, args) == [opcode |-> opcode, args |-> args]
BlockArgs(bt, instrs) == [block_type |-> bt, instructions |-> instrs]
IfArgs(bt, i1, i2) == [block_type |-> bt, instructions_1 |-> i1, instructions_2 |-> i2]
BrTableArgs(labels, default) == [labels |-> labels, default |-> default]
MemArg(align, offset) == [align |-> align, offset |-> offset]

Const(k) == Instr("i32.const", k)
Nullary(op) == Instr(op, None)

\* type section shared by the programs
TypeSec ==
    << FuncType(<<>>, <<>>),
       FuncType(<<"i32">>, <<"i32">>),
       FuncType(<<"i32", "i32">>, <<"i32">>),
       FuncType(<<"i32", "i32">>, <<>>),
       FuncType(<<"i64">>, <<"i32">>),
       FuncType(<<"i32">>, <<>>),
       FuncType(<<"i64", "i64">>, <<>>),
       FuncType(<<"f32", "f32">>, <<>>),
       FuncType(<<"f64", "f64">>, <<>>),
       FuncType(<<"i64", "i32">>, <<>>) >>

\* index of a function type in the type section
TypeIdx(ft) == CHOOSE i \in 0..(Len(TypeSec) - 1) : At(TypeSec, i) = ft
T_VOID == TypeIdx(FuncType(<<>>, <<>>))
T_I_I == TypeIdx(FuncType(<<"i32">>, <<"i32">>))
T_II_I == TypeIdx(FuncType(<<"i32", "i32">>, <<"i32">>))
T_II_V == TypeIdx(FuncType(<<"i32", "i32">>, <<>>))
T_L_I == TypeIdx(FuncType(<<"i64">>, <<"i32">>))
T_I_V == TypeIdx(FuncType(<<"i32">>, <<>>))
T_LL_V == TypeIdx(FuncType(<<"i64", "i64">>, <<>>))
T_FF_V == TypeIdx(FuncType(<<"f32", "f32">>, <<>>))
T_DD_V == TypeIdx(FuncType(<<"f64", "f64">>, <<>>))
T_LI_V == TypeIdx(FuncType(<<"i64", "i32">>, <<>>))

\* function index space of the programs: imports first, then code section order
FuncNames ==
    << "assert_eq_i32", "print_char", "assert_true", "assert_false",
       "assert_eq_i64", "assert_eq_f32", "assert_eq_f64",
       "ctl", "sw", "swmain", "rec", "recmain", "ind", "idf", "sum", "asrt",
       "mem", "test", "loc" >>
FuncIdx(name) == CHOOSE i \in 0..(Len(FuncNames) - 1) : At(FuncNames, i) = name
F_ASSERT_EQ_I32 == FuncIdx("assert_eq_i32")
F_PRINT_CHAR == FuncIdx("print_char")
F_CTL == FuncIdx("ctl")
F_SW == FuncIdx("sw")
F_SWMAIN == FuncIdx("swmain")
F_REC == FuncIdx("rec")
F_RECMAIN == FuncIdx("recmain")
F_IND == FuncIdx("ind")
F_IDF == FuncIdx("idf")
F_SUM == FuncIdx("sum")
F_ASRT == FuncIdx("asrt")
F_MEM == FuncIdx("mem")
F_TEST == FuncIdx("test")
F_LOC == FuncIdx("loc")
\* the host assertions, by function index
HostAsserts ==
    {FuncIdx(n) : n \in {"assert_true", "assert_false", "assert_eq_i32",
                         "assert_eq_i64", "assert_eq_f32", "assert_eq_f64"}}

Code(locals, expr) == [locals |-> locals, expr |-> expr]
Locals(n, vt) == [n |-> n, val_type |-> vt]

\* ctl: a block, a loop with a parameter and an if/else, with a back-edge
\* (br 1 to the loop, leaving an operand behind in the if), a conditional
\* forward branch (br_if 2 to the block), a branch to the if itself, and the
\* natural exits of the loop, the block and the function.
CtlCode(a, b) ==
    Code(<<Locals(1, "i32")>>,
      << Instr("block", BlockArgs(BLOCK_TYPE_I32,
           << Const(a),
              Instr("loop", BlockArgs(T_I_I,
                << Instr("if", IfArgs(BLOCK_TYPE_I32,
                     << Const(9), Const(0), Instr("br", 1) >>,
                     << Const(5), Const(b), Instr("br_if", 2),
                        Instr("br", 0) >>)) >>)) >>)),
         Instr("local.set", 0) >>)

\* sw: a switch compiled to br_table inside three nested blocks; dead is
\* whether unreachable code (a drop) follows the br_table.  Case 1 branches
\* out of a block with a result (br 0) and then to the function's own label
\* (br 1), each time leaving an operand behind.
SwCode(dead) ==
    Code(<<>>,
      << Instr("block", BlockArgs(BLOCK_TYPE_EMPTY,
           << Instr("block", BlockArgs(BLOCK_TYPE_EMPTY,
                << Instr("block", BlockArgs(BLOCK_TYPE_EMPTY,
                     << Instr("local.get", 0),
                        Instr("br_table", BrTableArgs(<<0, 1>>, 2)) >>
                     \o (IF dead THEN <<Nullary("drop")>> ELSE <<>>))),
                   Const(10),
                   Nullary("return") >>)),
              Const(8),
              Instr("block", BlockArgs(BLOCK_TYPE_I32,
                << Const(7), Const(20), Instr("br", 0) >>)),
              Instr("br", 1) >>)),
         Const(30) >>)

SwMainCode(i) ==
    Code(<<Locals(1, "i32")>>,
      << Const(i), Instr("call", F_SW), Instr("local.set", 0) >>)

\* rec(flag, v): calls itself once when flag is non-zero and returns from
\* inside an if inside a loop; otherwise returns its local copy of v.
RecCode ==
    Code(<<Locals(1, "i32")>>,
      << Instr("local.get", 1),
         Instr("local.set", 2),
         Instr("loop", BlockArgs(BLOCK_TYPE_EMPTY,
           << Instr("local.get", 0),
              Instr("if", IfArgs(BLOCK_TYPE_EMPTY,
                << Const(0), Instr("local.get", 1), Instr("call", F_REC),
                   Nullary("return") >>,
                <<>>)) >>)),
         Instr("local.get", 2) >>)

RecMainCode(c, flag, v, w) ==
    Code(<<Locals(1, "i32")>>,
      << Const(c), Const(flag), Const(v), Instr("call", F_REC),
         Const(w), Instr("call", F_ASSERT_EQ_I32),
         Instr("local.set", 0) >>)

RECURSIVE Repeat(_, _)
Repeat(x, n) == IF n = 0 THEN <<>> ELSE <<x>> \o Repeat(x, n - 1)

\* ind: pushes the arguments of type t, the table index i, and calls
\* indirectly; the results of type t are dropped.
IndCode(v, i, t) ==
    Code(<<>>,
      Repeat(Const(v), Len(At(TypeSec, t).params_types))
      \o << Const(i), Instr("call_indirect", t) >>
      \o Repeat(Nullary("drop"), Len(At(TypeSec, t).result_types)))

IdfCode == Code(<<>>, << Instr("local.get", 0) >>)

\* sum: the sum of 1..=10 in local 0, the counter in local 1, a loop with a
\* br_if back-edge on the counter, and the host's assert on the result.
SumCode ==
    Code(<<Locals(2, "i32")>>,
      << Const(1), Instr("local.set", 1),
         Instr("loop", BlockArgs(BLOCK_TYPE_EMPTY,
           << Instr("local.get", 0), Instr("local.get", 1),
              Nullary("i32.add"), Instr("local.set", 0),
              Instr("local.get", 1), Const(1), Nullary("i32.add"),
              Instr("local.tee", 1),
              Const(10), Nullary("i32.le_s"), Instr("br_if", 0) >>)),
         Instr("local.get", 0), Const(55), Instr("call", F_ASSERT_EQ_I32) >>)

\* the k-th i64 operand: the words of k = 0, 1, 2, 3 are 0:0, 0:1, 1:0, 1:1
ArgI64(k) == <<k \div 2, k % 2>>
\* the k-th f32 operand, as its bits: +0.0, -0.0, a NaN, 1.0
ArgF32(k) ==
    IF k = 0 THEN 0 ELSE IF k = 1 THEN -2147483647 - 1
    ELSE IF k = 2 THEN 2143289344 ELSE 1065353216
\* the k-th f64 operand, as the two words of its bits: +0.0, -0.0, a NaN, 1.0
ArgF64(k) ==
    IF k = 0 THEN <<0, 0>> ELSE IF k = 1 THEN <<-2147483647 - 1, 0>>
    ELSE IF k = 2 THEN <<2146959360, 0>> ELSE <<1072693248, 0>>

\* the operands of a call of the host assertion callee
AsrtArgs(callee, a, b) ==
    IF At(FuncNames, callee) \in {"assert_true", "assert_false"}
    THEN << Const(a) >>
    ELSE IF At(FuncNames, callee) = "assert_eq_i32"
    THEN << Const(a), Const(b) >>
    ELSE IF At(FuncNames, callee) = "assert_eq_i64"
    THEN << Instr("i64.const", ArgI64(a)), Instr("i64.const", ArgI64(b)) >>
    ELSE IF At(FuncNames, callee) = "assert_eq_f32"
    THEN << Instr("f32.const", ArgF32(a)), Instr("f32.const", ArgF32(b)) >>
    ELSE << Instr("f64.const", ArgF64(a)), Instr("f64.const", ArgF64(b)) >>

\* asrt: one call of a host assertion above an operand that is not its own
AsrtCode(callee, a, b) ==
    Code(<<>>,
      << Const(7) >> \o AsrtArgs(callee, a, b)
      \o << Instr("call", callee), Nullary("drop") >>)

\* mem: a store, a growth by g1 pages whose answer stays below the page
\* count pushed by memory.size, a load of the stored word, a second growth
\* by g2 pages and a load from the second page.
MemCode(v, g1, g2) ==
    Code(<<>>,
      << Const(4), Const(v), Instr("i32.store", MemArg(2, 0)),
         Const(g1), Nullary("memory.grow"), Nullary("memory.size"),
         Nullary("drop"), Nullary("drop"),
         Const(4), Instr("i32.load", MemArg(2, 0)), Nullary("drop"),
         Const(g2), Nullary("memory.grow"), Nullary("drop"),
         Const(0), Instr("i32.load", MemArg(2, PAGE_SIZE)), Nullary("drop") >>)

\* the limits of the memory: min <= max <= 65536, as the trusted compiler
\* emits them
MemTypes ==
    {mt \in [min : 1..2, max : {None} \cup {Some(k) : k \in 1..(MaxGrow + 1)}] :
        IsSome(mt.max) => mt.min <= Unwrap(mt.max)}

\* the page counts asked of memory.grow: small ones, one more than the
\* memory can ever hold, and 2^32 - 1
GrowArgs == (0..MaxGrow) \cup {MAX_PAGE_COUNT, -1}

\* the loads and the stores, and the width in bytes of their access
LoadOps ==
    {"i32.load", "i64.load", "f32.load", "f64.load",
     "i32.load8_s", "i32.load8_u", "i32.load16_s", "i32.load16_u",
     "i64.load8_s", "i64.load8_u", "i64.load16_s", "i64.load16_u",
     "i64.load32_s", "i64.load32_u"}
StoreOps ==
    {"i32.store", "i64.store", "f32.store", "f64.store", "i32.store8",
     "i32.store16", "i64.store8", "i64.store16", "i64.store32"}
AccessWidth(op) ==
    IF op \in {"i32.load8_s", "i32.load8_u", "i64.load8_s", "i64.load8_u",
               "i32.store8", "i64.store8"} THEN 1
    ELSE IF op \in {"i32.load16_s", "i32.load16_u", "i64.load16_s",
                    "i64.load16_u", "i32.store16", "i64.store16"} THEN 2
    ELSE IF op \in {"i64.load", "f64.load", "i64.store", "f64.store"} THEN 8
    ELSE 4

\* the v-th stored word: 0x81828384, 0x0102037F; and the word above it in
\* a 64-bit value: 0x85868788, 0x05060708
StoredLo(v) == IF v = 0 THEN -2122153084 ELSE 16909183
StoredHi(v) == IF v = 0 THEN -2054781048 ELSE 84281096
\* the instruction pushing the value a store takes
StoredConst(st, v) ==
    IF st \in {"i64.store", "i64.store8", "i64.store16", "i64.store32"}
    THEN Instr("i64.const", <<StoredHi(v), StoredLo(v)>>)
    ELSE IF st = "f64.store"
    THEN Instr("f64.const", <<StoredHi(v), StoredLo(v)>>)
    ELSE IF st = "f32.store" THEN Instr("f32.const", StoredLo(v))
    ELSE Const(StoredLo(v))

\* the k-th address of an access of w bytes to a memory of len bytes: base
\* address and static offset.  0: beside the data segment; 1: the last w
\* bytes; 2: one byte beyond; 3: the last w bytes, by the static offset;
\* 4: base 2^32 - 1 and offset 1, a sum of 2^32
AccessAddr(k, w, len) ==
    IF k = 0 THEN [base |-> 6, offset |-> 0]
    ELSE IF k = 1 THEN [base |-> len - w, offset |-> 0]
    ELSE IF k = 2 THEN [base |-> len - w + 1, offset |-> 0]
    ELSE IF k = 3 THEN [base |-> 0, offset |-> IF len >= w THEN len - w ELSE 0]
    ELSE [base |-> -1, offset |-> 1]

\* a store and a load, in either order
StoreAt(st, k, v, len) ==
    << Const(AccessAddr(k, AccessWidth(st), len).base), StoredConst(st, v),
       Instr(st, MemArg(0, AccessAddr(k, AccessWidth(st), len).offset)) >>
LoadAt(ld, k, len) ==
    << Const(AccessAddr(k, AccessWidth(ld), len).base),
       Instr(ld, MemArg(0, AccessAddr(k, AccessWidth(ld), len).offset)),
       Nullary("drop") >>
LsCode(st, ld, ks, kl, v, len, load_first) ==
    Code(<<>>,
         IF load_first THEN LoadAt(ld, kl, len) \o StoreAt(st, ks, v, len)
         ELSE StoreAt(st, ks, v, len) \o LoadAt(ld, kl, len))

\* The inputs of a run: which function is the entry and the operands the
\* programs are built from.
In0 ==
    [entry |-> F_CTL, main |-> F_CTL, a |-> 0, b |-> 0, c |-> 0, i |-> 0,
     t |-> T_VOID, dead |-> FALSE, has_table |-> TRUE, by_export |-> FALSE,
     with_start |-> TRUE, data_off_global |-> FALSE,
     n_globals |-> 3, n_data |-> 1, n_elem |-> 1,
     imp_module |-> "env", imp_global |-> FALSE, imp_type |-> T_LL_V,
     loc_type |-> T_VOID, loc |-> Code(<<>>, <<>>),
     callee |-> F_ASSERT_EQ_I32, mem |-> [min |-> 1, max |-> None],
     g1 |-> 0, g2 |-> 0, test |-> Code(<<>>, <<>>), overflow_checks |-> TRUE,
     pushes |-> <<>>, file |-> <<>>, tags |-> <<>>, magic |-> 0, version |-> 0,
     leb |-> [kind |-> "uint", size |-> 64, v |-> <<>>, n |-> 0, data |-> <<>>]]

\* the input whose entry function f is named by the start section or, when
\* by_export, by the export `main`
Run(f, by_export) ==
    [In0 EXCEPT !.entry = f, !.main = f, !.by_export = by_export,
                !.with_start = ~by_export]

\* glob: two sets of global i, each read back, with a reading of every
\* global in between
GlobCode(i, a, b) ==
    Code(<<>>,
      << Instr("global.get", i), Nullary("drop"),
         Const(a), Instr("global.set", i),
         Instr("global.get", i), Nullary("drop"),
         Instr("global.get", 0), Nullary("drop"),
         Instr("global.get", 1), Nullary("drop"),
         Instr("global.get", 2), Nullary("drop"),
         Const(-b), Instr("global.set", i),
         Instr("global.get", i), Nullary("drop") >>)

GlobInputs ==
    {[Run(F_TEST, FALSE) EXCEPT !.test = GlobCode(i, a, b)] :
        i \in 0..2, a \in 0..MaxArg, b \in 0..MaxArg}

\* locals: three i32 locals; an operand under the work, local j set, then
\* `local.tee i; local.get i`, and every local read back
TeeCode(i, j, a, v) ==
    Code(<<Locals(3, "i32")>>,
      << Const(-a),
         Const(a + 1), Instr("local.set", j),
         Const(v), Instr("local.tee", i), Instr("local.get", i),
         Nullary("drop"), Nullary("drop"),
         Instr("local.get", 0), Nullary("drop"),
         Instr("local.get", 1), Nullary("drop"),
         Instr("local.get", 2), Nullary("drop"),
         Nullary("drop") >>)

TeeInputs ==
    {[Run(F_TEST, FALSE) EXCEPT !.test = TeeCode(i, j, a, v)] :
        i \in 0..2, j \in 0..2, a \in 0..MaxArg, v \in (-1)..MaxArg}

\* integer arithmetic: the two operands, the operator, the result dropped;
\* the operands are slots, of which an i32 operator takes the low word
I32Ops ==
    {"i32.add", "i32.sub", "i32.mul", "i32.div_s", "i32.div_u", "i32.rem_s",
     "i32.rem_u", "i32.shl", "i32.shr_s", "i32.shr_u", "i32.rotl", "i32.rotr",
     "i32.trunc_f32_s", "i32.trunc_f32_u", "i32.trunc_f64_s", "i32.trunc_f64_u"}
ConstFor(op, slot) ==
    IF op \in I32Ops THEN Const(slot[2]) ELSE Instr("i64.const", slot)
ArithCode(op, x, y) ==
    Code(<<>>, << ConstFor(op, x), ConstFor(op, y), Nullary(op), Nullary("drop") >>)
\* a run of an arithmetic program in a build with or without overflow checks
ArithRun(op, x, y, checks) ==
    [Run(F_TEST, FALSE) EXCEPT !.test = ArithCode(op, x, y),
                               !.overflow_checks = checks]

ShiftOps ==
    {"i32.shl", "i32.shr_s", "i32.shr_u", "i32.rotl", "i32.rotr",
     "i64.shl", "i64.shr_s", "i64.shr_u", "i64.rotl", "i64.rotr"}
\* 6 and a value with its top and bottom bits set
ShiftVals == {<<0, 6>>, <<-2147483647 - 1, -2147483647>>}
\* 1, 31, 32, 33, 63, 64, and the amounts -1 and -32 with the sign bit set
ShiftAmounts ==
    {<<0, 1>>, <<0, 31>>, <<0, 32>>, <<0, 33>>, <<0, 63>>, <<0, 64>>,
     <<-1, -1>>, <<-1, -32>>}
ShiftInputs ==
    {ArithRun(op, x, a, checks) :
        op \in ShiftOps, x \in ShiftVals, a \in ShiftAmounts, checks \in BOOLEAN}

DivOps ==
    {"i32.div_s", "i32.div_u", "i32.rem_s", "i32.rem_u",
     "i64.div_s", "i64.div_u", "i64.rem_s", "i64.rem_u"}
\* the dividends 7, -7, MIN and -1 of the width of op
Dividends(op) ==
    {<<0, 7>>, <<-1, -7>>, <<-1, -1>>,
     IF op \in I32Ops THEN <<-1, -2147483647 - 1>> ELSE <<-2147483647 - 1, 0>>}
\* the divisors 0, -1, 2 and -3
Divisors == {<<0, 0>>, <<-1, -1>>, <<0, 2>>, <<-1, -3>>}
DivInputs ==
    UNION {{ArithRun(op, x, y, checks) :
                x \in Dividends(op), y \in Divisors, checks \in BOOLEAN} :
           op \in DivOps}

AddOps == {"i32.add", "i32.sub", "i32.mul", "i64.add", "i64.sub", "i64.mul"}
\* MAX, MIN, 3 and -1 of the width of op; 1, -1, 2 and MIN
AddLefts(op) ==
    IF op \in I32Ops
    THEN {<<0, 2147483647>>, <<-1, -2147483647 - 1>>, <<0, 3>>, <<-1, -1>>}
    ELSE {<<2147483647, -1>>, <<-2147483647 - 1, 0>>, <<0, 3>>, <<-1, -1>>}
AddRights(op) ==
    {<<0, 1>>, <<-1, -1>>, <<0, 2>>,
     IF op \in I32Ops THEN <<-1, -2147483647 - 1>> ELSE <<-2147483647 - 1, 0>>}
AddInputs ==
    UNION {{ArithRun(op, x, y, checks) :
                x \in AddLefts(op), y \in AddRights(op), checks \in BOOLEAN} :
           op \in AddOps}

\* float to integer: the operand, the truncation, the result dropped
TruncOps ==
    {"i32.trunc_f32_s", "i32.trunc_f32_u", "i32.trunc_f64_s", "i32.trunc_f64_u",
     "i64.trunc_f32_s", "i64.trunc_f32_u", "i64.trunc_f64_s", "i64.trunc_f64_u"}
F32TruncOps ==
    {"i32.trunc_f32_s", "i32.trunc_f32_u", "i64.trunc_f32_s", "i64.trunc_f32_u"}
\* the f32 NaN, 1.5, -1.5, -0.5, 2^31, 3e9, 1e20 and -inf
F32Vals ==
    {2143289344, 1069547520, -1077936128, -1090519040, 1325400064,
     1328730206, 1621981420, -8388608}
\* the same values as f64
F64Vals ==
    {<<2146959360, 0>>, <<1073217536, 0>>, <<-1074266112, 0>>,
     <<-1075838976, 0>>, <<1105199104, 0>>, <<1105615371, -1073741824>>,
     <<1142271773, 2025163840>>, <<-1048576, 0>>}
TruncCode(op, v) ==
    Code(<<>>,
      << IF op \in F32TruncOps THEN Instr("f32.const", v) ELSE Instr("f64.const", v),
         Nullary(op), Nullary("drop") >>)
TruncInputs ==
    UNION {{[Run(F_TEST, FALSE) EXCEPT !.test = TruncCode(op, v),
                                       !.overflow_checks = checks] :
                v \in IF op \in F32TruncOps THEN F32Vals ELSE F64Vals,
                checks \in BOOLEAN} :
           op \in TruncOps}

\* the stores paired with the loads of the same width
LsPairs == {p \in StoreOps \X LoadOps : AccessWidth(p[1]) = AccessWidth(p[2])}

\* the runs of the loads and stores: a store and a load of the same width
\* at the same address; a load elsewhere than the store; a memory of 0 pages
LsInputs ==
    {[Run(F_TEST, FALSE) EXCEPT
         !.test = LsCode(p[1], p[2], k, k, v, PAGE_SIZE, FALSE)] :
        p \in LsPairs, k \in 0..4, v \in 0..1}
    \cup
    {[Run(F_TEST, FALSE) EXCEPT
         !.test = LsCode("i32.store8", ld, 0, k, 0, PAGE_SIZE, TRUE)] :
        ld \in LoadOps, k \in 0..4}
    \cup
    {[Run(F_TEST, FALSE) EXCEPT
         !.mem = [min |-> 0, max |-> None],
         !.test = LsCode(p[1], p[2], k, k, 0, 0, f)] :
        p \in LsPairs, k \in {0, 1, 3}, f \in BOOLEAN}

Inputs ==
    {[Run(F_CTL, e) EXCEPT !.a = a, !.b = b] :
        a \in 0..MaxArg, b \in 0..MaxArg, e \in BOOLEAN}
    \cup
    {[Run(F_SWMAIN, FALSE) EXCEPT !.i = i, !.dead = d] :
        i \in -1..MaxIdx, d \in BOOLEAN}
    \cup
    {[Run(F_RECMAIN, FALSE) EXCEPT !.a = a, !.b = b, !.c = c] :
        a \in 0..1, b \in 0..MaxArg, c \in 0..MaxArg}
    \cup
    {[Run(F_IND, FALSE) EXCEPT !.a = a, !.i = i, !.t = t, !.has_table = h] :
        a \in 1..MaxArg, i \in -1..MaxIdx,
        t \in {T_VOID, T_I_I, T_L_I, T_I_V}, h \in BOOLEAN}
    \cup
    {Run(F_SUM, e) : e \in BOOLEAN}
    \cup
    \* a start section and an export `main` naming different functions; and
    \* neither
    {[In0 EXCEPT !.entry = F_SUM, !.main = F_CTL, !.by_export = TRUE],
     [In0 EXCEPT !.entry = F_CTL, !.main = F_SUM, !.by_export = TRUE],
     [In0 EXCEPT !.with_start = FALSE]}
    \cup
    \* the offset of the data segment is read from the global
    {[Run(F_CTL, FALSE) EXCEPT !.data_off_global = TRUE]}
    \cup
    \* a global import between the function imports; and print_char imported
    \* from a module other than env
    {[Run(F_SUM, FALSE) EXCEPT !.imp_global = TRUE]}
    \cup
    {[Run(f, FALSE) EXCEPT !.imp_module = "host", !.imp_global = g] :
        f \in {F_CTL, F_RECMAIN}, g \in BOOLEAN}
    \cup
    {[Run(F_ASRT, FALSE) EXCEPT !.callee = f, !.a = a, !.b = b] :
        f \in HostAsserts, a \in 0..MaxArg, b \in 0..MaxArg}
    \cup
    {[Run(F_MEM, FALSE) EXCEPT !.mem = mt, !.g1 = g1, !.g2 = g2] :
        mt \in MemTypes, g1 \in GrowArgs, g2 \in GrowArgs}

ConstExpr(k) == << Const(k) >>

\* The k-th global of the module: i32 globals initialised by a constant,
\* the second one immutable; globals after the third are i64, f32 or f64.
GlobalAt(k) ==
    IF k = 1 THEN [global_type |-> [val_type |-> "i32", mutable |-> TRUE],
                   init_expr |-> ConstExpr(3)]
    ELSE IF k = 2 THEN [global_type |-> [val_type |-> "i32", mutable |-> FALSE],
                        init_expr |-> ConstExpr(5)]
    ELSE IF k = 3 THEN [global_type |-> [val_type |-> "i32", mutable |-> TRUE],
                        init_expr |-> ConstExpr(-6)]
    ELSE [global_type |-> [val_type |-> "i64", mutable |-> TRUE],
          init_expr |-> << Instr("i64.const", <<0, k>>) >>]

\* The k-th data segment: two bytes at offset 8, 10, 12, ...; the first one
\* may take its offset from global 0.
DataAt(inp, k) ==
    [mem |-> 0,
     offset |-> IF k = 1 /\ inp.data_off_global
                THEN << Instr("global.get", 0) >> ELSE ConstExpr(6 + 2 * k),
     init |-> IF inp.mem.min = 0 THEN <<>> ELSE <<k, 2 * k>>]

\* The k-th element segment: the first one fills table slots 1..3, the
\* others one slot each.
ElemAt(k) ==
    [table |-> 0,
     offset |-> ConstExpr(IF k = 1 THEN 1 ELSE (k - 2) % 4),
     init |-> IF k = 1 THEN << F_IDF, F_PRINT_CHAR, F_SW >> ELSE << F_IDF >>]

\* The decoded Module of an input.
ModuleOf(inp) ==
    [ type_sec |-> TypeSec,
      import_sec |->
        << [module_name |-> "env", member_name |-> "assert_eq_i32",
            desc |-> [tag |-> "Func", idx |-> T_II_V]] >>
        \o (IF inp.imp_global
            THEN << [module_name |-> "env", member_name |-> "g",
                     desc |-> [tag |-> "Global",
                               idx |-> [val_type |-> "i32", mutable |-> FALSE]]] >>
            ELSE <<>>)
        \o << [module_name |-> inp.imp_module, member_name |-> "print_char",
                desc |-> [tag |-> "Func", idx |-> T_I_V]],
               [module_name |-> "env", member_name |-> "assert_true",
                desc |-> [tag |-> "Func", idx |-> T_I_V]],
               [module_name |-> "env", member_name |-> "assert_false",
                desc |-> [tag |-> "Func", idx |-> T_I_V]],
               [module_name |-> "env", member_name |-> "assert_eq_i64",
                desc |-> [tag |-> "Func", idx |-> inp.imp_type]],
               [module_name |-> "env", member_name |-> "assert_eq_f32",
                desc |-> [tag |-> "Func", idx |-> T_FF_V]],
               [module_name |-> "env", member_name |-> "assert_eq_f64",
                desc |-> [tag |-> "Func", idx |-> T_DD_V]] >>,
      func_sec |->
        << T_VOID, T_I_I, T_VOID, T_II_I, T_VOID, T_VOID, T_I_I, T_VOID,
           T_VOID, T_VOID, T_VOID, inp.loc_type >>,
      code_sec |->
        << CtlCode(inp.a, inp.b), SwCode(inp.dead), SwMainCode(inp.i),
           RecCode, RecMainCode(inp.c, inp.a, inp.b, inp.b),
           IndCode(inp.a, inp.i, inp.t), IdfCode, SumCode,
           AsrtCode(inp.callee, inp.a, inp.b),
           MemCode(-2, inp.g1, inp.g2), inp.test, inp.loc >>,
      table_sec |->
        IF inp.has_table
        THEN << [elem_type |-> "funcref", limits |-> [min |-> 4, max |-> None]] >>
        ELSE <<>>,
      elem_sec |-> [k \in 1..inp.n_elem |-> ElemAt(k)],
      mem_sec |-> << inp.mem >>,
      global_sec |-> [k \in 1..inp.n_globals |-> GlobalAt(k)],
      data_sec |-> [k \in 1..inp.n_data |-> DataAt(inp, k)],
      export_sec |->
        IF inp.by_export
        THEN << [name |-> "main", desc |-> [tag |-> "Mem", idx |-> 0]],
                [name |-> "main", desc |-> [tag |-> "Func", idx |-> inp.main]] >>
        ELSE <<>>,
      start_sec |-> IF inp.with_start THEN Some(inp.entry) ELSE None ]


\* ------------------------------------------------------------ VM values
\* the two words of a slot
Hi(slot) == slot[1]
Lo(slot) == slot[2]
ZeroSlot == <<0, 0>>

\* `val as u64` of an i32: the sign bit is copied into the high word
i32_as_u64(v) == <<IF v < 0 THEN -1 ELSE 0, v>>
\* `val as u64` of a u32: the high word is zero
u32_as_u64(v) == <<0, v>>
\* `val as u64` of a bool
bool_as_u64(b) == <<0, IF b THEN 1 ELSE 0>>
\* `slot as u32`, `slot as i32`: the low word
u64_as_u32(slot) == Lo(slot)
u64_as_i32(slot) == Lo(slot)
\* `slot != 0`
u64_as_bool(slot) == Hi(slot) # 0 \/ Lo(slot) # 0
\* a u32 (written as its signed twin) compared, unsigned, with a small natural n
u32_lt(v, n) == v >= 0 /\ v < n
u32_gt(v, n) == v < 0 \/ v > n

\* FuncType::get_signature, as the sequence of the pieces of the string
RECURSIVE join_types(_)
join_types(types) ==
    IF Len(types) = 0 THEN <<>>
    ELSE IF Len(types) = 1 THEN <<types[1]>>
    ELSE <<types[1], ",">> \o join_types(Tail(types))

get_signature(ft) ==
    <<"(">> \o join_types(ft.params_types) \o <<")->(">>
    \o join_types(ft.result_types) \o <<")">>

\* Code::get_local_count
RECURSIVE get_local_count(_)
get_local_count(locals) ==
    IF Len(locals) = 0 THEN 0 ELSE locals[1].n + get_local_count(Tail(locals))

\* Module::get_block_type
get_block_type(module, block_type) ==
    IF block_type = BLOCK_TYPE_I32 THEN FuncType(<<>>, <<"i32">>)
    ELSE IF block_type = BLOCK_TYPE_I64 THEN FuncType(<<>>, <<"i64">>)
    ELSE IF block_type = BLOCK_TYPE_F32 THEN FuncType(<<>>, <<"f32">>)
    ELSE IF block_type = BLOCK_TYPE_F64 THEN FuncType(<<>>, <<"f64">>)
    ELSE IF block_type = BLOCK_TYPE_EMPTY THEN FuncType(<<>>, <<>>)
    ELSE At(module.type_sec, block_type)

\* ---------------------------------------------------------- VM structures
ControlFrame(opcode, block_type, instrs, bp) ==
    [opcode |-> opcode, block_type |-> block_type, instrs |-> instrs,
     bp |-> bp, pc |-> 0]

new_internal_func(func_type, code) ==
    [func_type |-> func_type, code |-> Some(code), native_func |-> None]
new_external_func(func_type, native_func) ==
    [func_type |-> func_type, code |-> None, native_func |-> Some(native_func)]
\* VMFunc::default(): an unbound table entry
VMFuncDefault ==
    [func_type |-> FuncType(<<>>, <<>>), code |-> None, native_func |-> None]

NoBytes == [a \in {} |-> 0]
Memory_new(mem_type) ==
    [mem_type |-> mem_type, len |-> mem_type.min * PAGE_SIZE, bytes |-> NoBytes]

Table_new(elem_type) ==
    [elem_type |-> elem_type,
     elems |-> [k \in 1..elem_type.limits.min |-> VMFuncDefault]]

GlobalVar_new(global_type, val) == [global_type |-> global_type, val |-> val]

\* VM::new
VM_new(module) ==
    [ operand_stack |-> <<>>,
      module |-> module,
      memory |-> IF Len(module.mem_sec) > 0
                 THEN Memory_new(module.mem_sec[1])
                 ELSE Memory_new([min |-> 0, max |-> None]),
      local_0_idx |-> USIZE_MAX,
      globals |-> <<>>,
      control_stack |-> <<>>,
      vm_funcs |-> <<>>,
      table |-> None,
      panicked |-> FALSE ]

\* A panic: execution aborts where it stands.
Panic(vm) == [vm EXCEPT !.panicked = TRUE]

\* ------------------------------------------------------------ OperandStack
length(vm) == Len(vm.operand_stack)
\* the top slot (of a non-empty stack)
top_u64(vm) == vm.operand_stack[Len(vm.operand_stack)]
push_u64(vm, val) == [vm EXCEPT !.operand_stack = Append(@, val)]
push_u64s(vm, vals) == [vm EXCEPT !.operand_stack = @ \o vals]
\* pop().unwrap(): panics on an empty stack
pop_u64(vm) ==
    IF Len(vm.operand_stack) = 0 THEN Panic(vm)
    ELSE [vm EXCEPT !.operand_stack = SubSeq(@, 1, Len(@) - 1)]
\* the slots pop_u64s(n) returns: the top n, bottom one first
top_u64s(vm, n) ==
    SubSeq(vm.operand_stack, Len(vm.operand_stack) - n + 1, Len(vm.operand_stack))
\* pop_u64s(n): `len - n` overflows or the slice is out of range when n > len
\* (n < 0 stands for a count that came from an overflowed subtraction)
pop_u64s(vm, n) ==
    IF n < 0 \/ n > Len(vm.operand_stack) THEN Panic(vm)
    ELSE [vm EXCEPT !.operand_stack = SubSeq(@, 1, Len(@) - n)]
push_i32(vm, v) == push_u64(vm, i32_as_u64(v))
push_u32(vm, v) == push_u64(vm, u32_as_u64(v))
push_bool(vm, b) == push_u64(vm, bool_as_u64(b))
\* an i64 and an f64 are kept as the 64 bits of their slot, an f32 as the
\* 32 bits of its u32, so `as u64` / `as i64` and from_ne_bytes(to_ne_bytes)
\* keep the bits as they are
push_i64(vm, v) == push_u64(vm, v)
push_f32(vm, x) == push_u32(vm, x)
push_f64(vm, x) == push_u64(vm, x)
\* pop_T: the stack without its top slot and the slot read as a T;
\* pop().unwrap() panics on an empty stack
pop_as(vm, val) ==
    IF Len(vm.operand_stack) = 0 THEN [vm |-> Panic(vm), val |-> None]
    ELSE [vm |-> pop_u64(vm), val |-> val]
pop_bool(vm) ==
    IF Len(vm.operand_stack) = 0 THEN pop_as(vm, None)
    ELSE pop_as(vm, u64_as_bool(top_u64(vm)))
pop_u32(vm) ==
    IF Len(vm.operand_stack) = 0 THEN pop_as(vm, None)
    ELSE pop_as(vm, u64_as_u32(top_u64(vm)))
pop_i32(vm) ==
    IF Len(vm.operand_stack) = 0 THEN pop_as(vm, None)
    ELSE pop_as(vm, u64_as_i32(top_u64(vm)))
pop_i64(vm) ==
    IF Len(vm.operand_stack) = 0 THEN pop_as(vm, None)
    ELSE pop_as(vm, top_u64(vm))
pop_f32(vm) == pop_u32(vm)
pop_f64(vm) ==
    IF Len(vm.operand_stack) = 0 THEN pop_as(vm, None)
    ELSE pop_as(vm, top_u64(vm))
get_operand(vm, idx) == At(vm.operand_stack, idx)
set_operand(vm, idx, val) ==
    IF idx < 0 \/ idx >= Len(vm.operand_stack) THEN Panic(vm)
    ELSE [vm EXCEPT !.operand_stack[idx + 1] = val]

\* ------------------------------------------------------------ ControlStack
control_depth(vm) == Len(vm.control_stack)
top_control_frame(vm) == vm.control_stack[Len(vm.control_stack)]

\* ControlStack::top_call_frame: scans from the top; idx counts the frames
\* above the Call frame found
RECURSIVE top_call_frame_from(_, _)
top_call_frame_from(frames, idx) ==
    IF idx >= Len(frames) THEN [cf |-> None, idx |-> USIZE_MAX]
    ELSE IF frames[Len(frames) - idx].opcode = "call"
         THEN [cf |-> Some(frames[Len(frames) - idx]), idx |-> idx]
         ELSE top_call_frame_from(frames, idx + 1)

top_call_frame(frames) == top_call_frame_from(frames, 0)


\* ------------------------------------------------------- frame discipline
\* enter_block taking the base pointer at the top of the stack, above the
\* parameters
enter_block_bp_at_top(vm, opcode, bt, instrs) ==
    IF length(vm) < Len(bt.params_types) THEN Panic(vm)
    ELSE LET bp == length(vm)
             vm1 == [vm EXCEPT !.control_stack =
                         Append(@, ControlFrame(opcode, bt, instrs, bp))]
         IN  IF opcode = "call" THEN [vm1 EXCEPT !.local_0_idx = bp] ELSE vm1

\* VM::enter_block.  `length - params` overflowing is a panic (the build
\* checks arithmetic overflow).
enter_block(vm, opcode, bt, instrs) ==
    IF length(vm) < Len(bt.params_types) THEN Panic(vm)
    ELSE LET bp == length(vm) - Len(bt.params_types)
             vm1 == [vm EXCEPT !.control_stack =
                         Append(@, ControlFrame(opcode, bt, instrs, bp))]
         IN  IF opcode = "call" THEN [vm1 EXCEPT !.local_0_idx = bp] ELSE vm1

\* clear_block without the drop to the base pointer
clear_block_keeps_locals(vm, cf) ==
    LET k == Len(cf.block_type.result_types)
    IN  IF k > length(vm) THEN Panic(vm)
        ELSE LET results == top_u64s(vm, k)
                 vm1 == pop_u64s(vm, k)
                 vm3 == push_u64s(vm1, results)
             IN  IF cf.opcode = "call" /\ control_depth(vm3) > 0
                 THEN LET last_call_frame ==
                              top_call_frame(vm3.control_stack).cf
                      IN  IF IsSome(last_call_frame)
                          THEN [vm3 EXCEPT !.local_0_idx =
                                    Unwrap(last_call_frame).bp]
                          ELSE Panic(vm3)
                 ELSE vm3

\* clear_block that leaves local_0_idx at the callee's base pointer
clear_block_keeps_local_0(vm, cf) ==
    LET k == Len(cf.block_type.result_types)
    IN  IF k > length(vm) THEN Panic(vm)
        ELSE LET results == top_u64s(vm, k)
                 vm1 == pop_u64s(vm, k)
                 vm2 == pop_u64s(vm1, length(vm1) - cf.bp)
             IN  IF vm2.panicked THEN vm2 ELSE push_u64s(vm2, results)

\* VM::clear_block
clear_block(vm, cf) ==
    LET k == Len(cf.block_type.result_types)
    IN  IF k > length(vm) THEN Panic(vm)
        ELSE LET results == top_u64s(vm, k)
                 vm1 == pop_u64s(vm, k)
                 vm2 == pop_u64s(vm1, length(vm1) - cf.bp)
             IN  IF vm2.panicked THEN vm2
                 ELSE LET vm3 == push_u64s(vm2, results)
                      IN  IF cf.opcode = "call" /\ control_depth(vm3) > 0
                          THEN LET last_call_frame ==
                                       top_call_frame(vm3.control_stack).cf
                               IN  IF IsSome(last_call_frame)
                                   THEN [vm3 EXCEPT !.local_0_idx =
                                             Unwrap(last_call_frame).bp]
                                   ELSE Panic(vm3)
                          ELSE vm3

\* VM::exit_block
exit_block(vm) ==
    IF control_depth(vm) = 0 THEN Panic(vm)
    ELSE clear_block(
             [vm EXCEPT !.control_stack = SubSeq(@, 1, Len(@) - 1)],
             top_control_frame(vm))

\* ------------------------------------------------------- host functions
\* VM::wrap_u64: the boxed value handed to a host function
wrap_u64(vt, val) ==
    IF vt = "i32" THEN [ty |-> "i32", val |-> u64_as_i32(val)]
    ELSE IF vt = "i64" THEN [ty |-> "i64", val |-> val]
    ELSE IF vt = "f32" THEN [ty |-> "f32", val |-> u64_as_u32(val)]
    ELSE [ty |-> "f64", val |-> val]

\* VM::unwrap_u64 (integer results)
unwrap_u64(vt, boxed) ==
    IF vt = "i32" THEN i32_as_u64(boxed.val) ELSE boxed.val

\* VM::print_char, VM::assert_eq_i32: [panicked, results]
print_char(args) ==
    IF Len(args) # 1 \/ args[1].ty # "i32"
    THEN [panicked |-> TRUE, results |-> <<>>]
    ELSE [panicked |-> FALSE, results |-> <<>>]

assert_eq_i32(args) ==
    IF Len(args) # 2 THEN [panicked |-> TRUE, results |-> <<>>]
    ELSE IF args[1].ty # "i32" \/ args[2].ty # "i32"
         THEN [panicked |-> TRUE, results |-> <<>>]
         ELSE [panicked |-> args[1].val # args[2].val, results |-> <<>>]

\* VM::assert_true, VM::assert_false: the argument is downcast to bool
assert_true(args) ==
    IF Len(args) # 1 \/ args[1].ty # "bool"
    THEN [panicked |-> TRUE, results |-> <<>>]
    ELSE [panicked |-> ~args[1].val, results |-> <<>>]

assert_false(args) ==
    IF Len(args) # 1 \/ args[1].ty # "bool"
    THEN [panicked |-> TRUE, results |-> <<>>]
    ELSE [panicked |-> args[1].val, results |-> <<>>]

assert_eq_i64(args) ==
    IF Len(args) # 2 THEN [panicked |-> TRUE, results |-> <<>>]
    ELSE IF args[1].ty # "i64" \/ args[2].ty # "i64"
         THEN [panicked |-> TRUE, results |-> <<>>]
         ELSE [panicked |-> args[1].val # args[2].val, results |-> <<>>]

\* `==` of two f32, given by their bits: a NaN equals nothing, the two zeros
\* are equal, every other value equals only itself
f32_abs(x) == IF x < 0 THEN (x + 2147483647) + 1 ELSE x
f32_is_nan(x) == f32_abs(x) > 2139095040
f32_eq(x, y) ==
    /\ ~f32_is_nan(x) /\ ~f32_is_nan(y)
    /\ x = y \/ (f32_abs(x) = 0 /\ f32_abs(y) = 0)

\* `==` of two f64, given by the two words of their bits
f64_abs(x) == <<f32_abs(Hi(x)), Lo(x)>>
f64_is_nan(x) ==
    \/ Hi(f64_abs(x)) > 2146435072
    \/ Hi(f64_abs(x)) = 2146435072 /\ Lo(x) # 0
f64_eq(x, y) ==
    /\ ~f64_is_nan(x) /\ ~f64_is_nan(y)
    /\ x = y \/ (f64_abs(x) = ZeroSlot /\ f64_abs(y) = ZeroSlot)

assert_eq_f32(args) ==
    IF Len(args) # 2 THEN [panicked |-> TRUE, results |-> <<>>]
    ELSE IF args[1].ty # "f32" \/ args[2].ty # "f32"
         THEN [panicked |-> TRUE, results |-> <<>>]
         ELSE [panicked |-> ~f32_eq(args[1].val, args[2].val),
               results |-> <<>>]

assert_eq_f64(args) ==
    IF Len(args) # 2 THEN [panicked |-> TRUE, results |-> <<>>]
    ELSE IF args[1].ty # "f64" \/ args[2].ty # "f64"
         THEN [panicked |-> TRUE, results |-> <<>>]
         ELSE [panicked |-> ~f64_eq(args[1].val, args[2].val),
               results |-> <<>>]

\* the call of the function pointer stored by link_native_funcs
native_call(native_func, args) ==
    IF native_func = "print_char" THEN print_char(args)
    ELSE IF native_func = "assert_true" THEN assert_true(args)
    ELSE IF native_func = "assert_false" THEN assert_false(args)
    ELSE IF native_func = "assert_eq_i32" THEN assert_eq_i32(args)
    ELSE IF native_func = "assert_eq_i64" THEN assert_eq_i64(args)
    ELSE IF native_func = "assert_eq_f32" THEN assert_eq_f32(args)
    ELSE assert_eq_f64(args)

\* VM::pop_args: the i-th slot popped is wrapped by params_types[i], and the
\* vector is reversed at the end
pop_args(vm, ft) ==
    LET n == Len(ft.params_types)
        popped == [i \in 1..n |->
                      wrap_u64(ft.params_types[i],
                               vm.operand_stack[Len(vm.operand_stack) - i + 1])]
    IN  [k \in 1..n |-> popped[n - k + 1]]

\* VM::push_results
RECURSIVE push_results(_, _, _)
push_results(vm, ft, results) ==
    IF Len(results) = 0 THEN vm
    ELSE push_results(push_u64(vm, unwrap_u64(ft.result_types[1], results[1])),
                      ft, Tail(results))

\* call_external_func leaving the arguments on the stack
call_external_func_keeps_args(vm, f) ==
    LET n == Len(f.func_type.params_types)
    IN  IF n > length(vm) THEN Panic([vm EXCEPT !.operand_stack = <<>>])
        ELSE LET r == native_call(Unwrap(f.native_func), pop_args(vm, f.func_type))
             IN  IF r.panicked THEN Panic(vm)
                 ELSE push_results(vm, f.func_type, r.results)

\* VM::call_external_func
call_external_func(vm, f) ==
    LET n == Len(f.func_type.params_types)
    IN  IF n > length(vm) THEN Panic([vm EXCEPT !.operand_stack = <<>>])
        ELSE LET r == native_call(Unwrap(f.native_func), pop_args(vm, f.func_type))
                 vm1 == pop_u64s(vm, n)
             IN  IF r.panicked THEN Panic(vm1)
                 ELSE push_results(vm1, f.func_type, r.results)

\* call_internal_func allocating the locals of the first group only
call_internal_func_first_group(vm, func) ==
    LET vm1 == enter_block(vm, "call", func.func_type, Unwrap(func.code).expr)
    IN  IF vm1.panicked THEN vm1
        ELSE push_u64s(vm1,
                 [k \in 1..(IF Len(Unwrap(func.code).locals) = 0 THEN 0
                            ELSE Unwrap(func.code).locals[1].n) |-> ZeroSlot])

\* VM::call_internal_func
call_internal_func(vm, func) ==
    LET vm1 == enter_block(vm, "call", func.func_type, Unwrap(func.code).expr)
    IN  IF vm1.panicked THEN vm1
        ELSE push_u64s(vm1,
                 [k \in 1..get_local_count(Unwrap(func.code).locals) |-> ZeroSlot])

\* VM::call
call(vm, idx) ==
    IF idx < 0 \/ idx >= Len(vm.vm_funcs) THEN Panic(vm)
    ELSE LET f == At(vm.vm_funcs, idx)
         IN  IF IsSome(f.code) THEN call_internal_func(vm, f)
             ELSE IF IsSome(f.native_func) THEN call_external_func(vm, f)
             ELSE vm


\* --------------------------------------------------- instruction handlers
i32_const(vm, arg) == push_i32(vm, arg)
\* push_i64: `val as u64`; push_f32: the bits as a u32; push_f64: the bits
i64_const(vm, arg) == push_u64(vm, arg)
f32_const(vm, arg) == push_u32(vm, arg)
f64_const(vm, arg) == push_u64(vm, arg)

drop_value(vm) == pop_u64(vm)

nop(vm) == vm

unreachable(vm) == Panic(vm)

\* `v1 + v2` of two i32 does not overflow
i32_sum_ok(v1, v2) ==
    IF v2 >= 0 THEN v1 <= 2147483647 - v2 ELSE v1 >= (-2147483647 - 1) - v2

\* v1 + v2 modulo 2^32, of two i32 whose sum overflows
i32_wrapping_sum(v1, v2) ==
    IF v2 >= 0 THEN (v1 - 2147483647 - 1) + (v2 - 2147483647 - 1)
    ELSE (v1 + 2147483647 + 1) + (v2 + 2147483647 + 1)

\* VM::i32_add: on overflow `v1 + v2` panics in a build with overflow checks
\* and wraps in a build without
i32_add(vm) ==
    IF length(vm) < 2 THEN Panic([vm EXCEPT !.operand_stack = <<>>])
    ELSE LET v2 == u64_as_i32(top_u64(vm))
             v1 == u64_as_i32(top_u64(pop_u64(vm)))
             vm1 == pop_u64s(vm, 2)
         IN  IF i32_sum_ok(v1, v2) THEN push_i32(vm1, v1 + v2)
             ELSE IF vm.overflow_checks THEN Panic(vm1)
             ELSE push_i32(vm1, i32_wrapping_sum(v1, v2))

\* i32.le_s comparing strictly
i32_les_strict(vm) ==
    IF length(vm) < 2 THEN Panic([vm EXCEPT !.operand_stack = <<>>])
    ELSE LET v2 == u64_as_i32(top_u64(vm))
             v1 == u64_as_i32(top_u64(pop_u64(vm)))
         IN  push_bool(pop_u64s(vm, 2), v1 < v2)

\* VM::i32_les
i32_les(vm) ==
    IF length(vm) < 2 THEN Panic([vm EXCEPT !.operand_stack = <<>>])
    ELSE LET v2 == u64_as_i32(top_u64(vm))
             v1 == u64_as_i32(top_u64(pop_u64(vm)))
         IN  push_bool(pop_u64s(vm, 2), v1 <= v2)

\* local_0_idx + idx, as an index of the operand stack; a panic when it
\* overflows (local_0_idx = usize::MAX) or is out of range
local_slot_ok(vm, idx) ==
    /\ vm.local_0_idx # USIZE_MAX
    /\ vm.local_0_idx + idx < length(vm)

local_get(vm, idx) ==
    IF ~local_slot_ok(vm, idx) THEN Panic(vm)
    ELSE push_u64(vm, get_operand(vm, vm.local_0_idx + idx))

local_set(vm, idx) ==
    IF length(vm) = 0 THEN Panic(vm)
    ELSE LET val == top_u64(vm)
             vm1 == pop_u64(vm)
         IN  IF ~local_slot_ok(vm1, idx) THEN Panic(vm1)
             ELSE set_operand(vm1, vm1.local_0_idx + idx, val)

\* local.tee that pops its operand
local_tee_pops(vm, idx) == local_set(vm, idx)

local_tee(vm, idx) ==
    IF length(vm) = 0 THEN Panic(vm)
    ELSE LET val == top_u64(vm)
         IN  IF ~local_slot_ok(vm, idx) THEN Panic(vm)
             ELSE set_operand(vm, vm.local_0_idx + idx, val)

global_get(vm, idx) ==
    IF idx < 0 \/ idx >= Len(vm.globals) THEN Panic(vm)
    ELSE push_u64(vm, At(vm.globals, idx).val)

\* global.set that writes an immutable global too
global_set_any(vm, idx) ==
    IF length(vm) = 0 THEN Panic(vm)
    ELSE LET val == top_u64(vm)
             vm1 == pop_u64(vm)
         IN  IF idx < 0 \/ idx >= Len(vm1.globals) THEN Panic(vm1)
             ELSE [vm1 EXCEPT !.globals[idx + 1].val = val]

\* VM::global_set with GlobalVar::set_as_u64
global_set(vm, idx) ==
    IF length(vm) = 0 THEN Panic(vm)
    ELSE LET val == top_u64(vm)
             vm1 == pop_u64(vm)
         IN  IF idx < 0 \/ idx >= Len(vm1.globals) THEN Panic(vm1)
             ELSE IF ~At(vm1.globals, idx).global_type.mutable THEN Panic(vm1)
             ELSE [vm1 EXCEPT !.globals[idx + 1].val = val]

block(vm, block_args) ==
    enter_block(vm, "block",
                get_block_type(vm.module, block_args.block_type),
                block_args.instructions)

loop_instr(vm, block_args) ==
    enter_block(vm, "loop",
                get_block_type(vm.module, block_args.block_type),
                block_args.instructions)

if_instr(vm, if_args) ==
    IF length(vm) = 0 THEN Panic(vm)
    ELSE LET instrs == IF u64_as_bool(top_u64(vm))
                       THEN if_args.instructions_1
                       ELSE if_args.instructions_2
         IN  enter_block(pop_u64(vm), "if",
                         get_block_type(vm.module, if_args.block_type), instrs)

\* br that exits a loop it targets, as it exits a block
br_loop_exits(vm, label_idx) ==
    IF label_idx = USIZE_MAX \/ label_idx > control_depth(vm)
    THEN Panic([vm EXCEPT !.control_stack = <<>>])
    ELSE LET vm1 == [vm EXCEPT !.control_stack =
                         SubSeq(@, 1, Len(@) - label_idx)]
         IN  IF control_depth(vm1) = 0 THEN Panic(vm1)
             ELSE exit_block(vm1)

\* br that pops one frame too many before it exits the frame on top
br_off_by_one(vm, label_idx) ==
    IF label_idx = USIZE_MAX \/ label_idx + 1 > control_depth(vm)
    THEN Panic([vm EXCEPT !.control_stack = <<>>])
    ELSE LET vm1 == [vm EXCEPT !.control_stack =
                         SubSeq(@, 1, Len(@) - (label_idx + 1))]
         IN  IF control_depth(vm1) = 0 THEN Panic(vm1)
             ELSE exit_block(vm1)

\* VM::br.  label_idx frames are popped (a panic when the control stack runs
\* out, as it does for usize::MAX); then the frame on top is exited, or,
\* when it is a loop, re-entered.
br(vm, label_idx) ==
    IF label_idx = USIZE_MAX \/ label_idx > control_depth(vm)
    THEN Panic([vm EXCEPT !.control_stack = <<>>])
    ELSE LET vm1 == [vm EXCEPT !.control_stack =
                         SubSeq(@, 1, Len(@) - label_idx)]
         IN  IF control_depth(vm1) = 0 THEN Panic(vm1)
             ELSE LET cf == top_control_frame(vm1)
                  IN  IF cf.opcode # "loop" THEN exit_block(vm1)
                      ELSE LET n == Len(cf.block_type.params_types)
                               vm2 == [vm1 EXCEPT
                                   !.control_stack[Len(vm1.control_stack)].pc = 0]
                           IN  IF n > length(vm2) THEN Panic(vm2)
                               ELSE LET results == top_u64s(vm2, n)
                                        vm3 == pop_u64s(vm2, n)
                                        vm4 == pop_u64s(vm3, length(vm3) - cf.bp)
                                    IN  IF vm4.panicked THEN vm4
                                        ELSE push_u64s(vm4, results)

\* br_if that branches on a zero condition
br_if_inverted(vm, label_idx) ==
    IF length(vm) = 0 THEN Panic(vm)
    ELSE IF ~u64_as_bool(top_u64(vm)) THEN br(pop_u64(vm), label_idx)
    ELSE pop_u64(vm)

\* VM::br_if
br_if(vm, label_idx) ==
    IF length(vm) = 0 THEN Panic(vm)
    ELSE IF u64_as_bool(top_u64(vm)) THEN br(pop_u64(vm), label_idx)
    ELSE pop_u64(vm)

\* VM::br_table
br_table(vm, br_table_args) ==
    IF length(vm) = 0 THEN Panic(vm)
    ELSE LET idx == u64_as_u32(top_u64(vm))
             vm1 == pop_u64(vm)
         IN  IF u32_lt(idx, Len(br_table_args.labels))
             THEN br(vm1, At(br_table_args.labels, idx))
             ELSE vm1

\* return that leaves only the innermost frame
return_innermost(vm) == br(vm, 0)

\* VM::return_instr
return_instr(vm) == br(vm, top_call_frame(vm.control_stack).idx)

\* call_indirect without the comparison of the signatures
call_indrect_unchecked(vm, type_idx) ==
    IF length(vm) = 0 THEN Panic(vm)
    ELSE LET i == u64_as_u32(top_u64(vm))
             vm1 == pop_u64(vm)
         IN  IF ~IsSome(vm1.table) THEN Panic(vm1)
             ELSE IF u32_gt(i, Len(Unwrap(vm1.table).elems)) THEN Panic(vm1)
             ELSE IF i >= Len(Unwrap(vm1.table).elems) THEN Panic(vm1)
             ELSE LET func_in_table == At(Unwrap(vm1.table).elems, i)
                  IN  IF IsSome(func_in_table.code)
                      THEN call_internal_func(vm1, func_in_table)
                      ELSE IF IsSome(func_in_table.native_func)
                           THEN call_external_func(vm1, func_in_table)
                      ELSE Panic(vm1)

\* call_indirect that takes the popped index as a function index
call_indrect_by_func_index(vm, type_idx) ==
    IF length(vm) = 0 THEN Panic(vm)
    ELSE LET i == u64_as_u32(top_u64(vm))
             vm1 == pop_u64(vm)
         IN  IF ~IsSome(vm1.table) THEN Panic(vm1)
             ELSE IF u32_gt(i, Len(Unwrap(vm1.table).elems)) THEN Panic(vm1)
             ELSE IF i >= Len(vm1.vm_funcs) THEN Panic(vm1)
             ELSE LET func_in_table == At(vm1.vm_funcs, i)
                      func_type == At(vm1.module.type_sec, type_idx)
                  IN  IF get_signature(func_in_table.func_type)
                             # get_signature(func_type)
                      THEN Panic(vm1)
                      ELSE IF IsSome(func_in_table.code)
                           THEN call_internal_func(vm1, func_in_table)
                      ELSE IF IsSome(func_in_table.native_func)
                           THEN call_external_func(vm1, func_in_table)
                      ELSE Panic(vm1)

\* VM::call_indrect
call_indrect(vm, type_idx) ==
    IF length(vm) = 0 THEN Panic(vm)
    ELSE LET i == u64_as_u32(top_u64(vm))
             vm1 == pop_u64(vm)
         IN  IF ~IsSome(vm1.table) THEN Panic(vm1)
             ELSE IF u32_gt(i, Len(Unwrap(vm1.table).elems)) THEN Panic(vm1)
             \* Table::get_elem: the index is out of range
             ELSE IF i >= Len(Unwrap(vm1.table).elems) THEN Panic(vm1)
             ELSE LET func_in_table == At(Unwrap(vm1.table).elems, i)
                      func_type == At(vm1.module.type_sec, type_idx)
                  IN  IF get_signature(func_in_table.func_type)
                             # get_signature(func_type)
                      THEN Panic(vm1)
                      ELSE IF IsSome(func_in_table.code)
                           THEN call_internal_func(vm1, func_in_table)
                      ELSE IF IsSome(func_in_table.native_func)
                           THEN call_external_func(vm1, func_in_table)
                      ELSE Panic(vm1)

\* ------------------------------------------------------------------ memory
\* a u64 slot, as a usize, is greater than the small natural n
usize_gt(slot, n) == Hi(slot) # 0 \/ Lo(slot) < 0 \/ Lo(slot) > n

\* Memory::write whose check turns away the last byte of the memory
memory_write_short(vm, offset, data) ==
    IF Len(data) + 1 > vm.memory.len THEN Panic(vm)
    ELSE IF usize_gt(offset, vm.memory.len - Len(data) - 1) THEN Panic(vm)
    ELSE LET o == Lo(offset)
             written == o..(o + Len(data) - 1)
         IN  [vm EXCEPT !.memory.bytes =
                 [a \in (DOMAIN @) \cup written |->
                     IF a \in written THEN data[a - o + 1] ELSE @[a]]]

\* Memory::write with Memory::check_offset.  When the memory is shorter
\* than the data, `data.len() - length` overflows: a panic where overflow is
\* checked, and otherwise a huge bound that lets the offset pass, after
\* which the slice `data[offset..offset + length]` is out of range: a panic
\* as well.
memory_write(vm, offset, data) ==
    IF Len(data) > vm.memory.len THEN Panic(vm)
    ELSE IF usize_gt(offset, vm.memory.len - Len(data)) THEN Panic(vm)
    ELSE LET o == Lo(offset)
             written == o..(o + Len(data) - 1)
         IN  [vm EXCEPT !.memory.bytes =
                 [a \in (DOMAIN @) \cup written |->
                     IF a \in written THEN data[a - o + 1] ELSE @[a]]]

\* the byte of the memory at the small address a
Memory_byte(mem, a) == IF a \in DOMAIN mem.bytes THEN mem.bytes[a] ELSE 0

\* Memory::read with Memory::check_offset: [panicked, buf]
memory_read(vm, offset, n) ==
    IF n > vm.memory.len \/ usize_gt(offset, vm.memory.len - n)
    THEN [panicked |-> TRUE, buf |-> <<>>]
    ELSE [panicked |-> FALSE,
          buf |-> [k \in 1..n |-> Memory_byte(vm.memory, Lo(offset) + k - 1)]]

\* Memory::size
Memory_size(mem) == mem.len \div PAGE_SIZE

\* Memory::grow that answers the new page count
Memory_grow_new_size(mem, n) ==
    LET old_size == Memory_size(mem)
        max_page_count ==
            IF IsSome(mem.mem_type.max) THEN Unwrap(mem.mem_type.max)
            ELSE MAX_PAGE_COUNT
    IN  IF n = 0 THEN [mem |-> mem, ret |-> <<0, old_size>>]
        ELSE IF n < 0 \/ old_size > max_page_count - n
             THEN [mem |-> mem, ret |-> <<0, -1>>]
             ELSE [mem |-> [mem EXCEPT !.len = @ + n * PAGE_SIZE],
                   ret |-> <<0, old_size + n>>]

\* Memory::grow that answers a failure with the old page count
Memory_grow_fail_old(mem, n) ==
    LET old_size == Memory_size(mem)
        max_page_count ==
            IF IsSome(mem.mem_type.max) THEN Unwrap(mem.mem_type.max)
            ELSE MAX_PAGE_COUNT
    IN  IF n = 0 THEN [mem |-> mem, ret |-> <<0, old_size>>]
        ELSE IF n < 0 \/ old_size > max_page_count - n
             THEN [mem |-> mem, ret |-> <<0, old_size>>]
             ELSE [mem |-> [mem EXCEPT !.len = @ + n * PAGE_SIZE],
                   ret |-> <<0, old_size>>]

\* Memory::grow that lets the memory exceed its limit by one page
Memory_grow_below_max(mem, n) ==
    LET old_size == Memory_size(mem)
        max_page_count ==
            IF IsSome(mem.mem_type.max) THEN Unwrap(mem.mem_type.max)
            ELSE MAX_PAGE_COUNT
    IN  IF n = 0 THEN [mem |-> mem, ret |-> <<0, old_size>>]
        ELSE IF n < 0 \/ old_size > max_page_count + 1 - n
             THEN [mem |-> mem, ret |-> <<0, -1>>]
             ELSE [mem |-> [mem EXCEPT !.len = @ + n * PAGE_SIZE],
                   ret |-> <<0, old_size>>]

\* Memory::grow by n pages, n being a u32 widened to usize and written as
\* its signed twin: [mem, ret], ret the returned usize.  A negative n stands
\* for 2^31 pages or more, above every page limit of the modules here.
Memory_grow(mem, n) ==
    LET old_size == Memory_size(mem)
        max_page_count ==
            IF IsSome(mem.mem_type.max) THEN Unwrap(mem.mem_type.max)
            ELSE MAX_PAGE_COUNT
    IN  IF n = 0 THEN [mem |-> mem, ret |-> <<0, old_size>>]
        ELSE IF n < 0 \/ old_size > max_page_count - n
             THEN [mem |-> mem, ret |-> <<0, -1>>]
             ELSE [mem |-> [mem EXCEPT !.len = @ + n * PAGE_SIZE],
                   ret |-> <<0, old_size>>]

\* VM::memory_size
memory_size(vm) == push_u32(vm, Memory_size(vm.memory))

\* VM::memory_grow
memory_grow(vm) ==
    IF length(vm) = 0 THEN Panic(vm)
    ELSE LET r == Memory_grow(vm.memory, u64_as_u32(top_u64(vm)))
         IN  push_u32([pop_u64(vm) EXCEPT !.memory = r.mem], u64_as_u32(r.ret))

\* `a as usize + b as usize` of the u32 a (as its signed twin) and the small
\* natural b: a usize slot
usize_sum(a, b) ==
    IF a >= 0
    THEN IF a <= 2147483647 - b THEN <<0, a + b>>
         ELSE <<0, (a - 2147483647 - 1) + (b - 2147483647 - 1)>>
    ELSE IF a + b >= 0 THEN <<1, a + b>> ELSE <<0, a + b>>

\* VM::get_offset, of the base address on top of the stack
get_offset(vm, memarg) == usize_sum(u64_as_u32(top_u64(vm)), memarg.offset)

\* u32::from_le_bytes and u32::to_le_bytes
u32_from_le_bytes(buf) ==
    buf[1] + 256 * buf[2] + 65536 * buf[3]
    + 16777216 * (IF buf[4] >= 128 THEN buf[4] - 256 ELSE buf[4])
u32_to_le_bytes(n) ==
    << n % 256, (n \div 256) % 256, (n \div 65536) % 256,
       (n \div 16777216) % 256 >>

\* VM::i32_load with VM::read_u32
i32_load(vm, memarg) ==
    IF length(vm) = 0 THEN Panic(vm)
    ELSE LET r == memory_read(pop_u64(vm), get_offset(vm, memarg), 4)
         IN  IF r.panicked THEN Panic(pop_u64(vm))
             ELSE push_u32(pop_u64(vm), u32_from_le_bytes(r.buf))

\* VM::i32_store with VM::write_u32
i32_store(vm, memarg) ==
    IF length(vm) < 2 THEN Panic([vm EXCEPT !.operand_stack = <<>>])
    ELSE LET val == u64_as_u32(top_u64(vm))
             vm1 == pop_u64(vm)
         IN  memory_write(pop_u64(vm1), get_offset(vm1, memarg),
                          u32_to_le_bytes(val))

\* the shape of VM::read_u8 .. read_u64: get_offset pops the base address,
\* Memory::read fills the buffer: [vm, buf]
read_buf(vm, memarg, n) ==
    IF length(vm) = 0 THEN [vm |-> Panic(vm), buf |-> <<>>]
    ELSE LET r == memory_read(pop_u64(vm), get_offset(vm, memarg), n)
         IN  IF r.panicked THEN [vm |-> Panic(pop_u64(vm)), buf |-> <<>>]
             ELSE [vm |-> pop_u64(vm), buf |-> r.buf]

\* the shape of VM::write_u8 .. write_u64, after the value was popped
write_buf(vm, memarg, data) ==
    IF length(vm) = 0 THEN Panic(vm)
    ELSE memory_write(pop_u64(vm), get_offset(vm, memarg), data)

\* u16::from_le_bytes, u64::from_le_bytes (the two words of the u64)
u16_from_le_bytes(buf) == buf[1] + 256 * buf[2]
u64_from_le_bytes(buf) ==
    << u32_from_le_bytes(SubSeq(buf, 5, 8)), u32_from_le_bytes(SubSeq(buf, 1, 4)) >>
\* `as u8`, `as u16` of a u32 or the low word of a u64, and their le bytes
u8_to_le_bytes(n) == << n % 256 >>
u16_to_le_bytes(n) == << n % 256, (n \div 256) % 256 >>
u64_to_le_bytes(slot) == u32_to_le_bytes(Lo(slot)) \o u32_to_le_bytes(Hi(slot))
\* `val as i8`, `val as i16` of a u8, a u16
u8_as_i8(val) == IF val >= 128 THEN val - 256 ELSE val
u16_as_i16(val) == IF val >= 32768 THEN val - 65536 ELSE val

\* VM::i64_load .. VM::i64_load_32u
i64_load(vm, memarg) ==
    LET r == read_buf(vm, memarg, 8)
    IN  IF r.vm.panicked THEN r.vm ELSE push_u64(r.vm, u64_from_le_bytes(r.buf))
f32_load(vm, memarg) ==
    LET r == read_buf(vm, memarg, 4)
    IN  IF r.vm.panicked THEN r.vm ELSE push_u32(r.vm, u32_from_le_bytes(r.buf))
f64_load(vm, memarg) ==
    LET r == read_buf(vm, memarg, 8)
    IN  IF r.vm.panicked THEN r.vm ELSE push_u64(r.vm, u64_from_le_bytes(r.buf))
i32_load_8s(vm, memarg) ==
    LET r == read_buf(vm, memarg, 1)
    IN  IF r.vm.panicked THEN r.vm ELSE push_i32(r.vm, u8_as_i8(r.buf[1]))
i32_load_8u(vm, memarg) ==
    LET r == read_buf(vm, memarg, 1)
    IN  IF r.vm.panicked THEN r.vm ELSE push_u32(r.vm, r.buf[1])
i32_load_16s(vm, memarg) ==
    LET r == read_buf(vm, memarg, 2)
    IN  IF r.vm.panicked THEN r.vm
        ELSE push_i32(r.vm, u16_as_i16(u16_from_le_bytes(r.buf)))
i32_load_16u(vm, memarg) ==
    LET r == read_buf(vm, memarg, 2)
    IN  IF r.vm.panicked THEN r.vm ELSE push_u32(r.vm, u16_from_le_bytes(r.buf))
\* push_i64(v as i64) of a small signed v: the sign fills the high word
i64_load_8s(vm, memarg) ==
    LET r == read_buf(vm, memarg, 1)
    IN  IF r.vm.panicked THEN r.vm
        ELSE push_u64(r.vm, i32_as_u64(u8_as_i8(r.buf[1])))
i64_load_8u(vm, memarg) ==
    LET r == read_buf(vm, memarg, 1)
    IN  IF r.vm.panicked THEN r.vm ELSE push_u64(r.vm, u32_as_u64(r.buf[1]))
i64_load_16s(vm, memarg) ==
    LET r == read_buf(vm, memarg, 2)
    IN  IF r.vm.panicked THEN r.vm
        ELSE push_u64(r.vm, i32_as_u64(u16_as_i16(u16_from_le_bytes(r.buf))))
i64_load_16u(vm, memarg) ==
    LET r == read_buf(vm, memarg, 2)
    IN  IF r.vm.panicked THEN r.vm
        ELSE push_u64(r.vm, u32_as_u64(u16_from_le_bytes(r.buf)))
i64_load_32s(vm, memarg) ==
    LET r == read_buf(vm, memarg, 4)
    IN  IF r.vm.panicked THEN r.vm
        ELSE push_u64(r.vm, i32_as_u64(u32_from_le_bytes(r.buf)))
i64_load_32u(vm, memarg) ==
    LET r == read_buf(vm, memarg, 4)
    IN  IF r.vm.panicked THEN r.vm
        ELSE push_u64(r.vm, u32_as_u64(u32_from_le_bytes(r.buf)))

\* VM::i64_store .. VM::i64_store_32
i64_store(vm, memarg) ==
    IF length(vm) = 0 THEN Panic(vm)
    ELSE write_buf(pop_u64(vm), memarg, u64_to_le_bytes(top_u64(vm)))
f32_store(vm, memarg) ==
    IF length(vm) = 0 THEN Panic(vm)
    ELSE write_buf(pop_u64(vm), memarg, u32_to_le_bytes(u64_as_u32(top_u64(vm))))
f64_store(vm, memarg) ==
    IF length(vm) = 0 THEN Panic(vm)
    ELSE write_buf(pop_u64(vm), memarg, u64_to_le_bytes(top_u64(vm)))
i32_store_8(vm, memarg) ==
    IF length(vm) = 0 THEN Panic(vm)
    ELSE write_buf(pop_u64(vm), memarg, u8_to_le_bytes(u64_as_u32(top_u64(vm))))
i32_store_16(vm, memarg) ==
    IF length(vm) = 0 THEN Panic(vm)
    ELSE write_buf(pop_u64(vm), memarg, u16_to_le_bytes(u64_as_u32(top_u64(vm))))
i64_store_8(vm, memarg) ==
    IF length(vm) = 0 THEN Panic(vm)
    ELSE write_buf(pop_u64(vm), memarg, u8_to_le_bytes(Lo(top_u64(vm))))
i64_store_16(vm, memarg) ==
    IF length(vm) = 0 THEN Panic(vm)
    ELSE write_buf(pop_u64(vm), memarg, u16_to_le_bytes(Lo(top_u64(vm))))
i64_store_32(vm, memarg) ==
    IF length(vm) = 0 THEN Panic(vm)
    ELSE write_buf(pop_u64(vm), memarg, u32_to_le_bytes(Lo(top_u64(vm))))

\* ------------------------------------------------------ integer arithmetic
\* An integer of n bytes is its little-endian bytes, so that 64-bit values
\* are computed exactly: the operations below are those of the machine on
\* two's-complement words.
bytes_zero(n) == SubSeq(<<0, 0, 0, 0, 0, 0, 0, 0, 0, 0, 0, 0, 0, 0, 0, 0, 0>>, 1, n)
bytes_front(a) == SubSeq(a, 1, Len(a) - 1)
\* the sign bit
bytes_sign(a) == a[Len(a)] >= 128
bytes_is_zero(a) == \A k \in 1..Len(a) : a[k] = 0
\* bit i (0 the lowest) of a
bytes_bit(a, i) == (a[(i \div 8) + 1] \div (2 ^ (i % 8))) % 2
\* a + b + c modulo 256^n, for a carry c
RECURSIVE bytes_add(_, _, _)
bytes_add(a, b, c) ==
    IF Len(a) = 0 THEN <<>>
    ELSE LET t == a[1] + b[1] + c
         IN  <<t % 256>> \o bytes_add(Tail(a), Tail(b), t \div 256)
bytes_not(a) == [k \in 1..Len(a) |-> 255 - a[k]]
bytes_sub(a, b) == bytes_add(a, bytes_not(b), 1)
bytes_neg(a) == bytes_sub(bytes_zero(Len(a)), a)
\* a widened to n bytes, sign-extended
bytes_sext(a, n) ==
    a \o [k \in 1..(n - Len(a)) |-> IF bytes_sign(a) THEN 255 ELSE 0]
\* a * d + c modulo 256^n, for a byte d
RECURSIVE bytes_mul_small(_, _, _)
bytes_mul_small(a, d, c) ==
    IF Len(a) = 0 THEN <<>>
    ELSE LET t == a[1] * d + c
         IN  <<t % 256>> \o bytes_mul_small(Tail(a), d, t \div 256)
\* a * b modulo 256^n
RECURSIVE bytes_mul(_, _)
bytes_mul(a, b) ==
    IF Len(a) = 0 THEN <<>>
    ELSE bytes_add(bytes_mul_small(a, b[1], 0),
                   <<0>> \o bytes_mul(bytes_front(a), Tail(b)), 0)
\* a >= b, unsigned
RECURSIVE bytes_ge(_, _)
bytes_ge(a, b) ==
    IF Len(a) = 0 THEN TRUE
    ELSE \/ a[Len(a)] > b[Len(b)]
         \/ a[Len(a)] = b[Len(b)] /\ bytes_ge(bytes_front(a), bytes_front(b))
\* unsigned long division of a by b # 0, bit i downwards: the quotient q and
\* the remainder r (kept one byte wider than a) so far, both looked at in
\* every step
RECURSIVE bytes_divide(_, _, _, _, _)
bytes_divide(a, b, i, q, r) ==
    IF i < 0 \/ Len(q) >= Len(r) THEN [q |-> q, r |-> bytes_front(r)]
    ELSE LET r1 == bytes_add(r, r, bytes_bit(a, i))
             fits == bytes_ge(r1, b \o <<0>>)
         IN  bytes_divide(a, b, i - 1,
                 IF fits THEN [q EXCEPT ![(i \div 8) + 1] = @ + 2 ^ (i % 8)] ELSE q,
                 IF fits THEN bytes_sub(r1, b \o <<0>>) ELSE r1)
bytes_divrem(a, b) ==
    bytes_divide(a, b, 8 * Len(a) - 1, bytes_zero(Len(a)), bytes_zero(Len(a) + 1))
bytes_abs(a) == IF bytes_sign(a) THEN bytes_neg(a) ELSE a
\* a shifted right by one bit, c coming in at the top
RECURSIVE bytes_half(_, _)
bytes_half(a, c) ==
    IF Len(a) = 0 THEN <<>>
    ELSE bytes_half(bytes_front(a), a[Len(a)] % 2)
         \o <<(a[Len(a)] + 256 * c) \div 2>>
\* shifts and rotations by k bits, 0 <= k: by whole bytes, then bit by bit
RECURSIVE bytes_shl(_, _)
bytes_shl(a, k) ==
    IF k = 0 THEN a
    ELSE IF k >= 8 THEN bytes_shl(<<0>> \o bytes_front(a), k - 8)
    ELSE bytes_shl(bytes_add(a, a, 0), k - 1)
RECURSIVE bytes_shr_u(_, _)
bytes_shr_u(a, k) ==
    IF k = 0 THEN a
    ELSE IF k >= 8 THEN bytes_shr_u(Tail(a) \o <<0>>, k - 8)
    ELSE bytes_shr_u(bytes_half(a, 0), k - 1)
RECURSIVE bytes_shr_s(_, _)
bytes_shr_s(a, k) ==
    IF k = 0 THEN a
    ELSE IF k >= 8
         THEN bytes_shr_s(Tail(a) \o <<IF bytes_sign(a) THEN 255 ELSE 0>>, k - 8)
    ELSE bytes_shr_s(bytes_half(a, IF bytes_sign(a) THEN 1 ELSE 0), k - 1)
RECURSIVE bytes_rotl(_, _)
bytes_rotl(a, k) ==
    IF k = 0 THEN a
    ELSE IF k >= 8 THEN bytes_rotl(<<a[Len(a)]>> \o bytes_front(a), k - 8)
    ELSE bytes_rotl(bytes_add(a, a, IF bytes_sign(a) THEN 1 ELSE 0), k - 1)
RECURSIVE bytes_rotr(_, _)
bytes_rotr(a, k) ==
    IF k = 0 THEN a
    ELSE IF k >= 8 THEN bytes_rotr(Tail(a) \o <<a[1]>>, k - 8)
    ELSE bytes_rotr(bytes_half(a, a[1] % 2), k - 1)

\* The outcome of a Rust operator on two integers: `val` is what a build
\* without overflow checks computes, `overflow` says that a build with
\* overflow checks panics instead, `panic` that every build panics.
Outcome(val, overflow, panic) == [val |-> val, overflow |-> overflow, panic |-> panic]

\* `v1 + v2`, `v1 - v2`, `v1 * v2` of two signed integers
int_add(a, b) ==
    LET val == bytes_add(a, b, 0)
    IN  Outcome(val, bytes_sign(a) = bytes_sign(b) /\ bytes_sign(val) # bytes_sign(a),
                FALSE)
int_sub(a, b) ==
    LET val == bytes_sub(a, b)
    IN  Outcome(val, bytes_sign(a) # bytes_sign(b) /\ bytes_sign(val) # bytes_sign(a),
                FALSE)
int_mul(a, b) ==
    LET wide == bytes_mul(bytes_sext(a, 2 * Len(a)), bytes_sext(b, 2 * Len(a)))
        val == SubSeq(wide, 1, Len(a))
    IN  Outcome(val, wide # bytes_sext(val, 2 * Len(a)), FALSE)

\* i32::MIN, i64::MIN and -1
bytes_is_min(a) == a[Len(a)] = 128 /\ bytes_is_zero(bytes_front(a))
bytes_is_minus_one(a) == \A k \in 1..Len(a) : a[k] = 255

\* `v1 / v2`, `v1 % v2` of two unsigned integers: a panic on a zero divisor
int_div_u(a, b) ==
    IF bytes_is_zero(b) THEN Outcome(a, FALSE, TRUE)
    ELSE Outcome(bytes_divrem(a, b).q, FALSE, FALSE)
int_rem_u(a, b) ==
    IF bytes_is_zero(b) THEN Outcome(a, FALSE, TRUE)
    ELSE Outcome(bytes_divrem(a, b).r, FALSE, FALSE)

\* the signed division taking its operands as unsigned
int_div_s_unsigned(a, b) == int_div_u(a, b)

\* `v1 / v2`, `v1 % v2` of two signed integers: a panic on a zero divisor
\* and on MIN / -1, else the quotient truncated toward zero and the
\* remainder with the sign of the dividend
int_div_s(a, b) ==
    IF bytes_is_zero(b) \/ (bytes_is_min(a) /\ bytes_is_minus_one(b))
    THEN Outcome(a, FALSE, TRUE)
    ELSE LET q == bytes_divrem(bytes_abs(a), bytes_abs(b)).q
         IN  Outcome(IF bytes_sign(a) # bytes_sign(b) THEN bytes_neg(q) ELSE q,
                     FALSE, FALSE)
int_rem_s(a, b) ==
    IF bytes_is_zero(b) \/ (bytes_is_min(a) /\ bytes_is_minus_one(b))
    THEN Outcome(a, FALSE, TRUE)
    ELSE LET r == bytes_divrem(bytes_abs(a), bytes_abs(b)).r
         IN  Outcome(IF bytes_sign(a) THEN bytes_neg(r) ELSE r, FALSE, FALSE)
\* `v2 % 64` of a signed v2 (the remainder has the sign of v2) and of an
\* unsigned v2
rem_64_s(b) ==
    IF bytes_sign(b) /\ b[1] % 64 # 0 THEN (b[1] % 64) - 64 ELSE b[1] % 64
rem_64_u(b) == b[1] % 64
\* `v1 << n`, `v1 >> n` for the amount n: a build with overflow checks
\* panics unless 0 <= n < bits, a build without masks n to its low bits
int_shl(a, n) ==
    Outcome(bytes_shl(a, n % (8 * Len(a))), n < 0 \/ n >= 8 * Len(a), FALSE)
int_shr_s(a, n) ==
    Outcome(bytes_shr_s(a, n % (8 * Len(a))), n < 0 \/ n >= 8 * Len(a), FALSE)
int_shr_u(a, n) ==
    Outcome(bytes_shr_u(a, n % (8 * Len(a))), n < 0 \/ n >= 8 * Len(a), FALSE)
\* v1.rotate_left(v2 as u32), v1.rotate_right(v2 as u32): by v2 modulo bits
int_rotl(a, b) == Outcome(bytes_rotl(a, b[1] % (8 * Len(a))), FALSE, FALSE)
int_rotr(a, b) == Outcome(bytes_rotr(a, b[1] % (8 * Len(a))), FALSE, FALSE)

\* pop_i32 / pop_u32 (w = 4) and pop_i64 / pop_u64 (w = 8) of a slot, as bytes
operand_bytes(slot, w) ==
    IF w = 4 THEN u32_to_le_bytes(Lo(slot)) ELSE u64_to_le_bytes(slot)
\* push_i32 (signed) / push_u32 of 4 bytes, push_i64 / push_u64 of 8
push_bytes(vm, val, signed) ==
    IF Len(val) = 4
    THEN IF signed THEN push_i32(vm, u32_from_le_bytes(val))
         ELSE push_u32(vm, u32_from_le_bytes(val))
    ELSE push_u64(vm, u64_from_le_bytes(val))

\* the operands of a binary integer handler: v2 on top, v1 under it
int_v1(vm, w) == operand_bytes(top_u64(pop_u64(vm)), w)
int_v2(vm, w) == operand_bytes(top_u64(vm), w)
\* the shape of the binary integer handlers: v2 and v1 are popped, the
\* operator is applied to them with the outcome r, its value pushed
int_binop(vm, signed, r) ==
    IF length(vm) < 2 THEN Panic([vm EXCEPT !.operand_stack = <<>>])
    ELSE LET vm1 == pop_u64s(vm, 2)
         IN  IF r.panic \/ (r.overflow /\ vm.overflow_checks) THEN Panic(vm1)
             ELSE push_bytes(vm1, r.val, signed)

shl_op(a, b) == int_shl(a, rem_64_s(b))
shrs_op(a, b) == int_shr_s(a, rem_64_s(b))
shru_op(a, b) == int_shr_u(a, rem_64_u(b))

\* VM::i32_sub .. VM::i32_rotr
i32_sub(vm) == int_binop(vm, TRUE, int_sub(int_v1(vm, 4), int_v2(vm, 4)))
i32_mul(vm) == int_binop(vm, TRUE, int_mul(int_v1(vm, 4), int_v2(vm, 4)))
i32_divs(vm) == int_binop(vm, TRUE, int_div_s(int_v1(vm, 4), int_v2(vm, 4)))
i32_divu(vm) == int_binop(vm, FALSE, int_div_u(int_v1(vm, 4), int_v2(vm, 4)))
i32_rems(vm) == int_binop(vm, TRUE, int_rem_s(int_v1(vm, 4), int_v2(vm, 4)))
i32_remu(vm) == int_binop(vm, FALSE, int_rem_u(int_v1(vm, 4), int_v2(vm, 4)))
i32_shl(vm) == int_binop(vm, TRUE, shl_op(int_v1(vm, 4), int_v2(vm, 4)))
i32_shrs(vm) == int_binop(vm, TRUE, shrs_op(int_v1(vm, 4), int_v2(vm, 4)))
i32_shru(vm) == int_binop(vm, FALSE, shru_op(int_v1(vm, 4), int_v2(vm, 4)))
i32_rotl(vm) == int_binop(vm, TRUE, int_rotl(int_v1(vm, 4), int_v2(vm, 4)))
i32_rotr(vm) == int_binop(vm, TRUE, int_rotr(int_v1(vm, 4), int_v2(vm, 4)))
\* VM::i64_add .. VM::i64_rotr
i64_add(vm) == int_binop(vm, TRUE, int_add(int_v1(vm, 8), int_v2(vm, 8)))
i64_sub(vm) == int_binop(vm, TRUE, int_sub(int_v1(vm, 8), int_v2(vm, 8)))
i64_mul(vm) == int_binop(vm, TRUE, int_mul(int_v1(vm, 8), int_v2(vm, 8)))
i64_divs(vm) == int_binop(vm, TRUE, int_div_s(int_v1(vm, 8), int_v2(vm, 8)))
i64_divu(vm) == int_binop(vm, FALSE, int_div_u(int_v1(vm, 8), int_v2(vm, 8)))
i64_rems(vm) == int_binop(vm, TRUE, int_rem_s(int_v1(vm, 8), int_v2(vm, 8)))
i64_remu(vm) == int_binop(vm, FALSE, int_rem_u(int_v1(vm, 8), int_v2(vm, 8)))
i64_shl(vm) == int_binop(vm, TRUE, shl_op(int_v1(vm, 8), int_v2(vm, 8)))
i64_shrs(vm) == int_binop(vm, TRUE, shrs_op(int_v1(vm, 8), int_v2(vm, 8)))
i64_shru(vm) == int_binop(vm, FALSE, shru_op(int_v1(vm, 8), int_v2(vm, 8)))
i64_rotl(vm) == int_binop(vm, TRUE, int_rotl(int_v1(vm, 8), int_v2(vm, 8)))
i64_rotr(vm) == int_binop(vm, TRUE, int_rotr(int_v1(vm, 8), int_v2(vm, 8)))

\* --------------------------------------------------------- float to integer
\* An f32 (its 32 bits) and an f64 (its slot) taken apart: whether it is a
\* NaN, its sign, its unbiased exponent e, and its significand with the
\* leading one as a 64-bit integer, of which `frac` bits are fractional.
f32_parts(x) ==
    LET m == IF x < 0 THEN x + 2147483647 + 1 ELSE x
        exp == m \div 8388608
    IN  [nan |-> exp = 255 /\ m % 8388608 # 0, neg |-> x < 0, e |-> exp - 127,
         sig |-> u64_to_le_bytes(<<0, 8388608 + (m % 8388608)>>), frac |-> 23]
f64_parts(slot) ==
    LET m == IF Hi(slot) < 0 THEN Hi(slot) + 2147483647 + 1 ELSE Hi(slot)
        exp == m \div 1048576
    IN  [nan |-> exp = 2047 /\ (m % 1048576 # 0 \/ Lo(slot) # 0),
         neg |-> Hi(slot) < 0, e |-> exp - 1023,
         sig |-> u64_to_le_bytes(<<1048576 + (m % 1048576), Lo(slot)>>), frac |-> 52]
\* |v.trunc()| of a float below 2^64 in magnitude, as a 64-bit integer
trunc_magnitude(f) ==
    IF f.e < 0 THEN bytes_zero(8)
    ELSE IF f.e >= f.frac THEN bytes_shl(f.sig, f.e - f.frac)
    ELSE bytes_shr_u(f.sig, f.frac - f.e)
\* |v.trunc()| >= 2^bits
magnitude_ge(f, bits) ==
    /\ ~f.nan
    /\ f.e >= bits

\* `v.trunc() as T` for T of w bytes: the cast saturates and takes NaN to 0
float_as_signed(f, w) ==
    IF f.nan THEN bytes_zero(w)
    ELSE IF magnitude_ge(f, 8 * w - 1)
    THEN IF f.neg THEN bytes_zero(w - 1) \o <<128>>
         ELSE [k \in 1..(w - 1) |-> 255] \o <<127>>
    ELSE LET mag == SubSeq(trunc_magnitude(f), 1, w)
         IN  IF f.neg THEN bytes_neg(mag) ELSE mag
float_as_unsigned(f, w) ==
    IF f.nan \/ f.neg THEN bytes_zero(w)
    ELSE IF magnitude_ge(f, 8 * w) THEN bytes_not(bytes_zero(w))
    ELSE SubSeq(trunc_magnitude(f), 1, w)

\* VM::i32_trunc_f32 .. VM::u64_trunc_f64
i32_trunc_f32(vm) ==
    LET p == pop_f32(vm)
    IN  IF p.vm.panicked THEN p.vm
        ELSE push_bytes(p.vm, float_as_signed(f32_parts(p.val), 4), TRUE)
u32_trunc_f32(vm) ==
    LET p == pop_f32(vm)
    IN  IF p.vm.panicked THEN p.vm
        ELSE push_bytes(p.vm, float_as_unsigned(f32_parts(p.val), 4), FALSE)
i32_trunc_f64(vm) ==
    LET p == pop_f64(vm)
    IN  IF p.vm.panicked THEN p.vm
        ELSE push_bytes(p.vm, float_as_signed(f64_parts(p.val), 4), TRUE)
u32_trunc_f64(vm) ==
    LET p == pop_f64(vm)
    IN  IF p.vm.panicked THEN p.vm
        ELSE push_bytes(p.vm, float_as_unsigned(f64_parts(p.val), 4), FALSE)
i64_trunc_f32(vm) ==
    LET p == pop_f32(vm)
    IN  IF p.vm.panicked THEN p.vm
        ELSE push_bytes(p.vm, float_as_signed(f32_parts(p.val), 8), TRUE)
u64_trunc_f32(vm) ==
    LET p == pop_f32(vm)
    IN  IF p.vm.panicked THEN p.vm
        ELSE push_bytes(p.vm, float_as_unsigned(f32_parts(p.val), 8), FALSE)
i64_trunc_f64(vm) ==
    LET p == pop_f64(vm)
    IN  IF p.vm.panicked THEN p.vm
        ELSE push_bytes(p.vm, float_as_signed(f64_parts(p.val), 8), TRUE)
u64_trunc_f64(vm) ==
    LET p == pop_f64(vm)
    IN  IF p.vm.panicked THEN p.vm
        ELSE push_bytes(p.vm, float_as_unsigned(f64_parts(p.val), 8), FALSE)

\* VM::exec_instr, for the opcodes of the programs; any other opcode falls
\* into the `_ => {}` arm
exec_instr(vm, instr) ==
    IF instr.opcode = "call" THEN call(vm, instr.args)
    ELSE IF instr.opcode = "drop" THEN drop_value(vm)
    ELSE IF instr.opcode = "i32.const" THEN i32_const(vm, instr.args)
    ELSE IF instr.opcode = "i64.const" THEN i64_const(vm, instr.args)
    ELSE IF instr.opcode = "f32.const" THEN f32_const(vm, instr.args)
    ELSE IF instr.opcode = "f64.const" THEN f64_const(vm, instr.args)
    ELSE IF instr.opcode = "local.get" THEN local_get(vm, instr.args)
    ELSE IF instr.opcode = "local.set" THEN local_set(vm, instr.args)
    ELSE IF instr.opcode = "local.tee" THEN local_tee(vm, instr.args)
    ELSE IF instr.opcode = "global.get" THEN global_get(vm, instr.args)
    ELSE IF instr.opcode = "global.set" THEN global_set(vm, instr.args)
    ELSE IF instr.opcode = "br" THEN br(vm, instr.args)
    ELSE IF instr.opcode = "br_table" THEN br_table(vm, instr.args)
    ELSE IF instr.opcode = "br_if" THEN br_if(vm, instr.args)
    ELSE IF instr.opcode = "block" THEN block(vm, instr.args)
    ELSE IF instr.opcode = "loop" THEN loop_instr(vm, instr.args)
    ELSE IF instr.opcode = "if" THEN if_instr(vm, instr.args)
    ELSE IF instr.opcode = "return" THEN return_instr(vm)
    ELSE IF instr.opcode = "call_indirect" THEN call_indrect(vm, instr.args)
    ELSE IF instr.opcode = "unreachable" THEN unreachable(vm)
    ELSE IF instr.opcode = "i32.add" THEN i32_add(vm)
    ELSE IF instr.opcode = "i32.le_s" THEN i32_les(vm)
    ELSE IF instr.opcode = "memory.size" THEN memory_size(vm)
    ELSE IF instr.opcode = "memory.grow" THEN memory_grow(vm)
    ELSE IF instr.opcode = "i32.load" THEN i32_load(vm, instr.args)
    ELSE IF instr.opcode = "i32.store" THEN i32_store(vm, instr.args)
    ELSE IF instr.opcode = "i64.load" THEN i64_load(vm, instr.args)
    ELSE IF instr.opcode = "f32.load" THEN f32_load(vm, instr.args)
    ELSE IF instr.opcode = "f64.load" THEN f64_load(vm, instr.args)
    ELSE IF instr.opcode = "i32.load8_s" THEN i32_load_8s(vm, instr.args)
    ELSE IF instr.opcode = "i32.load8_u" THEN i32_load_8u(vm, instr.args)
    ELSE IF instr.opcode = "i32.load16_s" THEN i32_load_16s(vm, instr.args)
    ELSE IF instr.opcode = "i32.load16_u" THEN i32_load_16u(vm, instr.args)
    ELSE IF instr.opcode = "i64.load8_s" THEN i64_load_8s(vm, instr.args)
    ELSE IF instr.opcode = "i64.load8_u" THEN i64_load_8u(vm, instr.args)
    ELSE IF instr.opcode = "i64.load16_s" THEN i64_load_16s(vm, instr.args)
    ELSE IF instr.opcode = "i64.load16_u" THEN i64_load_16u(vm, instr.args)
    ELSE IF instr.opcode = "i64.load32_s" THEN i64_load_32s(vm, instr.args)
    ELSE IF instr.opcode = "i64.load32_u" THEN i64_load_32u(vm, instr.args)
    ELSE IF instr.opcode = "i64.store" THEN i64_store(vm, instr.args)
    ELSE IF instr.opcode = "f32.store" THEN f32_store(vm, instr.args)
    ELSE IF instr.opcode = "f64.store" THEN f64_store(vm, instr.args)
    ELSE IF instr.opcode = "i32.store8" THEN i32_store_8(vm, instr.args)
    ELSE IF instr.opcode = "i32.store16" THEN i32_store_16(vm, instr.args)
    ELSE IF instr.opcode = "i64.store8" THEN i64_store_8(vm, instr.args)
    ELSE IF instr.opcode = "i64.store16" THEN i64_store_16(vm, instr.args)
    ELSE IF instr.opcode = "i64.store32" THEN i64_store_32(vm, instr.args)
    ELSE IF instr.opcode = "i32.sub" THEN i32_sub(vm)
    ELSE IF instr.opcode = "i32.mul" THEN i32_mul(vm)
    ELSE IF instr.opcode = "i32.div_s" THEN i32_divs(vm)
    ELSE IF instr.opcode = "i32.div_u" THEN i32_divu(vm)
    ELSE IF instr.opcode = "i32.rem_s" THEN i32_rems(vm)
    ELSE IF instr.opcode = "i32.rem_u" THEN i32_remu(vm)
    ELSE IF instr.opcode = "i32.shl" THEN i32_shl(vm)
    ELSE IF instr.opcode = "i32.shr_s" THEN i32_shrs(vm)
    ELSE IF instr.opcode = "i32.shr_u" THEN i32_shru(vm)
    ELSE IF instr.opcode = "i32.rotl" THEN i32_rotl(vm)
    ELSE IF instr.opcode = "i32.rotr" THEN i32_rotr(vm)
    ELSE IF instr.opcode = "i64.add" THEN i64_add(vm)
    ELSE IF instr.opcode = "i64.sub" THEN i64_sub(vm)
    ELSE IF instr.opcode = "i64.mul" THEN i64_mul(vm)
    ELSE IF instr.opcode = "i64.div_s" THEN i64_divs(vm)
    ELSE IF instr.opcode = "i64.div_u" THEN i64_divu(vm)
    ELSE IF instr.opcode = "i64.rem_s" THEN i64_rems(vm)
    ELSE IF instr.opcode = "i64.rem_u" THEN i64_remu(vm)
    ELSE IF instr.opcode = "i64.shl" THEN i64_shl(vm)
    ELSE IF instr.opcode = "i64.shr_s" THEN i64_shrs(vm)
    ELSE IF instr.opcode = "i64.shr_u" THEN i64_shru(vm)
    ELSE IF instr.opcode = "i64.rotl" THEN i64_rotl(vm)
    ELSE IF instr.opcode = "i64.rotr" THEN i64_rotr(vm)
    ELSE IF instr.opcode = "i32.trunc_f32_s" THEN i32_trunc_f32(vm)
    ELSE IF instr.opcode = "i32.trunc_f32_u" THEN u32_trunc_f32(vm)
    ELSE IF instr.opcode = "i32.trunc_f64_s" THEN i32_trunc_f64(vm)
    ELSE IF instr.opcode = "i32.trunc_f64_u" THEN u32_trunc_f64(vm)
    ELSE IF instr.opcode = "i64.trunc_f32_s" THEN i64_trunc_f32(vm)
    ELSE IF instr.opcode = "i64.trunc_f32_u" THEN u64_trunc_f32(vm)
    ELSE IF instr.opcode = "i64.trunc_f64_s" THEN i64_trunc_f64(vm)
    ELSE IF instr.opcode = "i64.trunc_f64_u" THEN u64_trunc_f64(vm)
    ELSE vm

\* `for instr in expr { self.exec_instr(instr) }`
RECURSIVE exec_expr(_, _)
exec_expr(vm, expr) ==
    IF vm.panicked \/ Len(expr) = 0 THEN vm
    ELSE exec_expr(exec_instr(vm, expr[1]), Tail(expr))

\* ------------------------------------------------------------ initialisers
\* VM::init_memory
RECURSIVE init_memory(_, _)
init_memory(vm, data_sec) ==
    IF vm.panicked \/ Len(data_sec) = 0 THEN vm
    ELSE LET vm1 == exec_expr(vm, data_sec[1].offset)
         IN  IF vm1.panicked THEN vm1
             ELSE IF length(vm1) = 0 THEN Panic(vm1)
             ELSE init_memory(
                      memory_write(pop_u64(vm1), top_u64(vm1), data_sec[1].init),
                      Tail(data_sec))

\* init_globals leaving each initialiser's value on the operand stack
RECURSIVE init_globals_keeps_slot(_, _)
init_globals_keeps_slot(vm, global_sec) ==
    IF vm.panicked \/ Len(global_sec) = 0 THEN vm
    ELSE LET vm1 == exec_expr(vm, global_sec[1].init_expr)
         IN  IF vm1.panicked THEN vm1
             ELSE IF length(vm1) = 0 THEN Panic(vm1)
             ELSE init_globals_keeps_slot(
                      [vm1 EXCEPT !.globals =
                          Append(@, GlobalVar_new(global_sec[1].global_type,
                                                  top_u64(vm1)))],
                      Tail(global_sec))

\* VM::init_globals
RECURSIVE init_globals(_, _)
init_globals(vm, global_sec) ==
    IF vm.panicked \/ Len(global_sec) = 0 THEN vm
    ELSE LET vm1 == exec_expr(vm, global_sec[1].init_expr)
         IN  IF vm1.panicked THEN vm1
             ELSE IF length(vm1) = 0 THEN Panic(vm1)
             ELSE init_globals(
                      [pop_u64(vm1) EXCEPT !.globals =
                          Append(@, GlobalVar_new(global_sec[1].global_type,
                                                  top_u64(vm1)))],
                      Tail(global_sec))

NativeNames ==
    {"print_char", "assert_true", "assert_false", "assert_eq_i32",
     "assert_eq_i64", "assert_eq_f32", "assert_eq_f64"}

\* VM::link_native_funcs
RECURSIVE link_native_funcs(_, _)
link_native_funcs(vm, import_sec) ==
    IF vm.panicked \/ Len(import_sec) = 0 THEN vm
    ELSE LET imp == import_sec[1]
         IN  IF imp.module_name = "env" /\ imp.desc.tag = "Func"
             THEN IF imp.member_name \in NativeNames
                  THEN link_native_funcs(
                           [vm EXCEPT !.vm_funcs = Append(@,
                               new_external_func(
                                   At(vm.module.type_sec, imp.desc.idx),
                                   imp.member_name))],
                           Tail(import_sec))
                  ELSE Panic(vm)
             ELSE link_native_funcs(vm, Tail(import_sec))

\* VM::init_funcs
init_funcs(vm) ==
    LET vm1 == link_native_funcs(vm, vm.module.import_sec)
    IN  IF vm1.panicked THEN vm1
        ELSE [vm1 EXCEPT !.vm_funcs = @ \o
                 [j \in 1..Len(vm.module.func_sec) |->
                     new_internal_func(
                         At(vm.module.type_sec, vm.module.func_sec[j]),
                         vm.module.code_sec[j])]]

\* Table::set_elem for each function of one element segment
RECURSIVE set_elems(_, _, _)
set_elems(vm, offset, init) ==
    IF vm.panicked \/ Len(init) = 0 THEN vm
    ELSE IF offset < 0 \/ offset >= Len(Unwrap(vm.table).elems) THEN Panic(vm)
    ELSE IF init[1] >= Len(vm.vm_funcs) THEN Panic(vm)
    ELSE set_elems(
             [vm EXCEPT !.table[1].elems[offset + 1] = At(vm.vm_funcs, init[1])],
             offset + 1, Tail(init))

RECURSIVE init_elems(_, _)
init_elems(vm, elem_sec) ==
    IF vm.panicked \/ Len(elem_sec) = 0 THEN vm
    ELSE LET vm1 == exec_expr(vm, elem_sec[1].offset)
         IN  IF vm1.panicked THEN vm1
             ELSE IF length(vm1) = 0 THEN Panic(vm1)
             ELSE init_elems(
                      set_elems(pop_u64(vm1), u64_as_u32(top_u64(vm1)),
                                elem_sec[1].init),
                      Tail(elem_sec))

\* VM::init_table
init_table(vm) ==
    IF Len(vm.module.table_sec) > 0
    THEN init_elems([vm EXCEPT !.table = Some(Table_new(vm.module.table_sec[1]))],
                    vm.module.elem_sec)
    ELSE vm

\* VM::get_main_idx
RECURSIVE get_main_idx(_)
get_main_idx(export_sec) ==
    IF Len(export_sec) = 0 THEN None
    ELSE IF export_sec[1].desc.tag = "Func" /\ export_sec[1].name = "main"
         THEN Some(export_sec[1].desc.idx)
         ELSE get_main_idx(Tail(export_sec))


\* ---------------------------------------------------------------- decoder
\* module.rs: the binary decoder. A file is a sequence of bytes 0..255.
MAGIC_NUMBER == 1836278016
VERSION == 1
SEC_CUSTOM_ID == 0
SEC_TYPE_ID == 1
SEC_IMPORT_ID == 2
SEC_FUNC_ID == 3
SEC_TABLE_ID == 4
SEC_MEM_ID == 5
SEC_GLOBAL_ID == 6
SEC_EXPORT_ID == 7
SEC_START_ID == 8
SEC_ELEM_ID == 9
SEC_CODE_ID == 10
SEC_DATA_ID == 11

\* a widened to n bytes, zero-extended
bytes_zext(a, n) == a \o bytes_zero(n - Len(a))
\* `a | b` of two bytes and of two integers of the same width
bit_or(a, b, i) ==
    IF ((a \div (2 ^ i)) % 2) + ((b \div (2 ^ i)) % 2) > 0 THEN 2 ^ i ELSE 0
byte_or(a, b) ==
    bit_or(a, b, 0) + bit_or(a, b, 1) + bit_or(a, b, 2) + bit_or(a, b, 3)
    + bit_or(a, b, 4) + bit_or(a, b, 5) + bit_or(a, b, 6) + bit_or(a, b, 7)
bytes_or(a, b) == [k \in 1..Len(a) |-> byte_or(a[k], b[k])]

\* what a LEB128 decoder returns, (val, n), or its panic
Decoded(val, n, panic) == [val |-> val, n |-> n, panic |-> panic]

\* decode_var_uint: the loop from `index` on. The u64 `result` is 8 bytes;
\* `<< (index * 7)` panics in a build with overflow checks once the amount
\* reaches 64 and is masked to its low 6 bits in a build without.
\* uint_group is the loop body once `(value & 0x7f) << (index * 7)` is known.
RECURSIVE decode_var_uint_at(_, _, _, _)
RECURSIVE uint_group(_, _, _, _, _)
uint_group(data, index, result, checks, group) ==
    IF group.overflow /\ checks THEN Decoded(result, index, TRUE)
    ELSE IF data[index + 1] < 128
         THEN Decoded(bytes_or(result, group.val), index + 1, FALSE)
    ELSE decode_var_uint_at(data, index + 1, bytes_or(result, group.val), checks)
decode_var_uint_at(data, index, result, checks) ==
    IF index >= Len(data) THEN Decoded(result, index, TRUE)
    ELSE uint_group(data, index, result, checks,
                    int_shl(bytes_zext(<<data[index + 1] % 128>>, 8), index * 7))
decode_var_uint(data, checks) ==
    decode_var_uint_at(data, 0, bytes_zero(8), checks)

\* decode_var_int: the same on an i64, with `result |= -1 << ((index + 1) * 7)`
\* when the last byte has bit 0x40 set and index * 7 < size.
\* int_sign is that statement, int_group the loop body.
int_sign(result, index, checks, ones) ==
    IF ones.overflow /\ checks THEN Decoded(result, index, TRUE)
    ELSE Decoded(bytes_or(result, ones.val), index + 1, FALSE)
RECURSIVE decode_var_int_at(_, _, _, _, _)
RECURSIVE int_group(_, _, _, _, _, _)
int_group(data, size, index, result, checks, group) ==
    IF group.overflow /\ checks THEN Decoded(result, index, TRUE)
    ELSE IF data[index + 1] >= 128
         THEN decode_var_int_at(data, size, index + 1,
                                bytes_or(result, group.val), checks)
    ELSE IF index * 7 < size /\ (data[index + 1] \div 64) % 2 = 1
         THEN int_sign(bytes_or(result, group.val), index, checks,
                       int_shl(bytes_not(bytes_zero(8)), (index + 1) * 7))
    ELSE Decoded(bytes_or(result, group.val), index + 1, FALSE)
decode_var_int_at(data, size, index, result, checks) ==
    IF index >= Len(data) THEN Decoded(result, index, TRUE)
    ELSE int_group(data, size, index, result, checks,
                   int_shl(bytes_zext(<<data[index + 1] % 128>>, 8), index * 7))
decode_var_int(data, size, checks) ==
    decode_var_int_at(data, size, 0, bytes_zero(8), checks)

\* WasmReader: the bytes not read yet, the build it runs in, and whether a
\* panic has aborted the decoding. `beyond` marks a section whose entries are
\* not decoded here (import, table, global, export, elem, code and data
\* sections are decoded only when they hold no entry).
\* A function that binds a value with `let` is written as a chain: the
\* operator named after it, then one operator per value bound.
WasmReader_new(data, checks) ==
    [data |-> data, checks |-> checks, panicked |-> FALSE, beyond |-> FALSE]
Read(rd, val) == [rd |-> rd, val |-> val]
ReadPanic(rd) == Read([rd EXCEPT !.panicked = TRUE], 0)
remaining(rd) == Len(rd.data)
\* `self.data = &self.data[n..]`
Advance(rd, n) == [rd EXCEPT !.data = SubSeq(rd.data, n + 1, Len(rd.data))]

read_byte(rd) ==
    IF rd.panicked \/ remaining(rd) = 0 THEN ReadPanic(rd)
    ELSE Read(Advance(rd, 1), rd.data[1])
\* split_at(4) and from_ne_bytes, on a little-endian machine
read_u32(rd) ==
    IF rd.panicked \/ remaining(rd) < 4 THEN ReadPanic(rd)
    ELSE Read(Advance(rd, 4), u32_from_le_bytes(SubSeq(rd.data, 1, 4)))
\* `n as u32`, `n as i32` of the (n, w) decoded
read_var_32_of(rd, d) ==
    IF rd.panicked \/ d.panic THEN ReadPanic(rd)
    ELSE Read(Advance(rd, d.n), u32_from_le_bytes(SubSeq(d.val, 1, 4)))
read_var_u32(rd) == read_var_32_of(rd, decode_var_uint(rd.data, rd.checks))
read_var_i32(rd) == read_var_32_of(rd, decode_var_int(rd.data, 32, rd.checks))
read_var_i64_of(rd, d) ==
    IF rd.panicked \/ d.panic THEN ReadPanic(rd)
    ELSE Read(Advance(rd, d.n), u64_from_le_bytes(d.val))
read_var_i64(rd) == read_var_i64_of(rd, decode_var_int(rd.data, 64, rd.checks))
\* a length of 2^31 or more is a negative twin and exceeds every file
read_bytes_of(len) ==
    IF len.rd.panicked \/ len.val < 0 \/ len.val > remaining(len.rd)
    THEN ReadPanic(len.rd)
    ELSE Read(Advance(len.rd, len.val), SubSeq(len.rd.data, 1, len.val))
read_bytes(rd) == read_bytes_of(read_var_u32(rd))
\* String::from_utf8(bytes).unwrap(): the names decoded here are ASCII
read_name(rd) == read_bytes(rd)

\* ValType::try_from(byte).unwrap()
ValTypeBytes == {127, 126, 125, 124, 112}
read_val_type_of(b) ==
    IF b.rd.panicked \/ b.val \notin ValTypeBytes THEN ReadPanic(b.rd) ELSE b
read_val_type(rd) == read_val_type_of(read_byte(rd))
RECURSIVE read_val_type_vec(_, _, _)
read_val_type_push(v, n, result) ==
    read_val_type_vec(v.rd, n - 1, Append(result, v.val))
read_val_type_vec(rd, n, result) ==
    IF rd.panicked THEN ReadPanic(rd)
    ELSE IF n = 0 THEN Read(rd, result)
    ELSE read_val_type_push(read_val_type(rd), n, result)
\* a count of 2^31 or more entries exhausts the file or the allocator
read_val_types_of(n) ==
    IF n.rd.panicked \/ n.val < 0 THEN ReadPanic(n.rd)
    ELSE read_val_type_vec(n.rd, n.val, <<>>)
read_val_types(rd) == read_val_types_of(read_var_u32(rd))

read_func_type_results(params, results) ==
    IF results.rd.panicked THEN ReadPanic(results.rd)
    ELSE Read(results.rd, [params_types |-> params.val,
                           result_types |-> results.val])
read_func_type_params(params) ==
    read_func_type_results(params, read_val_types(params.rd))
read_func_type_tag(tag) ==
    IF tag.rd.panicked \/ tag.val # 96 THEN ReadPanic(tag.rd)
    ELSE read_func_type_params(read_val_types(tag.rd))
read_func_type(rd) == read_func_type_tag(read_byte(rd))

read_limits_max(min, max) ==
    IF max.rd.panicked THEN ReadPanic(max.rd)
    ELSE Read(max.rd, [min |-> min.val, max |-> Some(max.val)])
read_limits_min(tag, min) ==
    IF min.rd.panicked THEN ReadPanic(min.rd)
    ELSE IF tag.val = 0 THEN Read(min.rd, [min |-> min.val, max |-> None])
    ELSE read_limits_max(min, read_var_u32(min.rd))
read_limits_tag(tag) == read_limits_min(tag, read_var_u32(tag.rd))
read_limits(rd) == read_limits_tag(read_byte(rd))

read_custom_sec_name(data, name) ==
    IF name.rd.panicked THEN ReadPanic(data.rd)
    ELSE Read(data.rd, [name |-> name.val, bytes |-> name.rd.data])
read_custom_sec_data(data) ==
    IF data.rd.panicked THEN ReadPanic(data.rd)
    ELSE read_custom_sec_name(data,
             read_name(WasmReader_new(data.val, data.rd.checks)))
read_custom_sec(rd) == read_custom_sec_data(read_bytes(rd))

RECURSIVE read_func_type_vec(_, _, _)
read_func_type_push(v, n, result) ==
    read_func_type_vec(v.rd, n - 1, Append(result, v.val))
read_func_type_vec(rd, n, result) ==
    IF rd.panicked THEN ReadPanic(rd)
    ELSE IF n = 0 THEN Read(rd, result)
    ELSE read_func_type_push(read_func_type(rd), n, result)
read_type_sec_of(len) ==
    IF len.rd.panicked \/ len.val < 0 THEN ReadPanic(len.rd)
    ELSE read_func_type_vec(len.rd, len.val, <<>>)
read_type_sec(rd) == read_type_sec_of(read_var_u32(rd))

RECURSIVE read_idx_vec(_, _, _)
read_idx_push(v, n, result) ==
    read_idx_vec(v.rd, n - 1, Append(result, v.val))
read_idx_vec(rd, n, result) ==
    IF rd.panicked THEN ReadPanic(rd)
    ELSE IF n = 0 THEN Read(rd, result)
    ELSE read_idx_push(read_var_u32(rd), n, result)
read_func_sec_of(len) ==
    IF len.rd.panicked \/ len.val < 0 THEN ReadPanic(len.rd)
    ELSE read_idx_vec(len.rd, len.val, <<>>)
read_func_sec(rd) == read_func_sec_of(read_var_u32(rd))

RECURSIVE read_limits_vec(_, _, _)
read_limits_push(v, n, result) ==
    read_limits_vec(v.rd, n - 1, Append(result, v.val))
read_limits_vec(rd, n, result) ==
    IF rd.panicked THEN ReadPanic(rd)
    ELSE IF n = 0 THEN Read(rd, result)
    ELSE read_limits_push(read_limits(rd), n, result)
read_mem_sec_of(len) ==
    IF len.rd.panicked \/ len.val < 0 THEN ReadPanic(len.rd)
    ELSE read_limits_vec(len.rd, len.val, <<>>)
read_mem_sec(rd) == read_mem_sec_of(read_var_u32(rd))

read_start_sec_of(idx) ==
    IF idx.rd.panicked THEN ReadPanic(idx.rd) ELSE Read(idx.rd, Some(idx.val))
read_start_sec(rd) == read_start_sec_of(read_var_u32(rd))

\* read_import_sec, read_table_sec, read_global_sec, read_export_sec,
\* read_elem_sec, read_code_sec, read_data_sec: the vector when it is empty
read_entries_of(len) ==
    IF len.rd.panicked THEN ReadPanic(len.rd)
    ELSE IF len.val = 0 THEN Read(len.rd, <<>>)
    ELSE Read([len.rd EXCEPT !.beyond = TRUE], <<>>)
read_entries(rd) == read_entries_of(read_var_u32(rd))

\* `module.<field> = <the section read>`: the reader afterwards and the
\* module with the section stored in it
StoreSec(m, field, sec) ==
    IF sec.rd.panicked THEN Read(sec.rd, m)
    ELSE Read(sec.rd, [m EXCEPT ![field] = sec.val])
read_non_custom_sec(rd, sec_id, m) ==
    CASE sec_id = SEC_TYPE_ID -> StoreSec(m, "type_sec", read_type_sec(rd))
      [] sec_id = SEC_IMPORT_ID -> StoreSec(m, "import_sec", read_entries(rd))
      [] sec_id = SEC_FUNC_ID -> StoreSec(m, "func_sec", read_func_sec(rd))
      [] sec_id = SEC_TABLE_ID -> StoreSec(m, "table_sec", read_entries(rd))
      [] sec_id = SEC_MEM_ID -> StoreSec(m, "mem_sec", read_mem_sec(rd))
      [] sec_id = SEC_GLOBAL_ID -> StoreSec(m, "global_sec", read_entries(rd))
      [] sec_id = SEC_EXPORT_ID -> StoreSec(m, "export_sec", read_entries(rd))
      [] sec_id = SEC_START_ID -> StoreSec(m, "start_sec", read_start_sec(rd))
      [] sec_id = SEC_ELEM_ID -> StoreSec(m, "elem_sec", read_entries(rd))
      [] sec_id = SEC_CODE_ID -> StoreSec(m, "code_sec", read_entries(rd))
      [] sec_id = SEC_DATA_ID -> StoreSec(m, "data_sec", read_entries(rd))
      [] OTHER -> Read([rd EXCEPT !.panicked = TRUE], m)

\* the Module before read_module has filled it
NoModule ==
    [magic |-> 0, version |-> 0,
     custom_sec |-> <<>>, type_sec |-> <<>>, import_sec |-> <<>>,
     func_sec |-> <<>>, table_sec |-> <<>>, mem_sec |-> <<>>,
     global_sec |-> <<>>, export_sec |-> <<>>, start_sec |-> None,
     elem_sec |-> <<>>, code_sec |-> <<>>, data_sec |-> <<>>]
\* read_module before read_sections: magic and version are read and stored
read_module_version(magic, version) ==
    IF version.rd.panicked THEN ReadPanic(version.rd)
    ELSE Read(version.rd,
              [NoModule EXCEPT !.magic = magic.val, !.version = version.val])
read_module_magic(magic) == read_module_version(magic, read_u32(magic.rd))
read_module(rd) == read_module_magic(read_u32(rd))

\* the decoder's state: the reader, the Module being filled, read_sections'
\* `prev_sec_id`, and where decode_file stands. `ids` lists the section ids
\* the loop of read_sections has read so far.
Decoder(rd, m, prev_sec_id, at, ids) ==
    [rd |-> rd, module |-> m, prev_sec_id |-> prev_sec_id, at |-> at,
     ids |-> ids]
\* decode_file: `let mut wasm_reader = WasmReader::new(&buf)`
decode_file(buf, checks) ==
    Decoder(WasmReader_new(buf, checks), NoModule, 0, "read_module", <<>>)
\* the decoder once decode_file has returned the Module the VM runs
FileDecoded == [decode_file(<<>>, TRUE) EXCEPT !.at = "done"]

\* read_sections panicking in the iteration that read the id last in `ids`
Aborted(dec, rd, ids) ==
    [dec EXCEPT !.rd = [rd EXCEPT !.panicked = TRUE], !.ids = ids]
\* one iteration of the loop of read_sections: the checks after the section
\* is read, after sec_len is read, the custom section, and after sec_id is read
read_sections_sec(dec, sec_id, sec_len, sec) ==
    IF sec.rd.panicked THEN Aborted(dec, sec.rd, Append(dec.ids, sec_id))
    ELSE IF sec_len.val < 0
            \/ remaining(sec_len.rd) # remaining(sec.rd) + sec_len.val
         THEN Aborted(dec, sec.rd, Append(dec.ids, sec_id))
    ELSE Decoder(sec.rd, sec.val, sec_id, dec.at, Append(dec.ids, sec_id))
read_sections_len(dec, sec_id, sec_len) ==
    IF sec_len.rd.panicked
    THEN Aborted(dec, sec_len.rd, Append(dec.ids, sec_id))
    ELSE read_sections_sec(dec, sec_id, sec_len,
             read_non_custom_sec(sec_len.rd, sec_id, dec.module))
read_sections_custom(dec, sec_id, custom) ==
    IF custom.rd.panicked THEN Aborted(dec, custom.rd, Append(dec.ids, sec_id))
    ELSE [dec EXCEPT !.rd = custom.rd, !.ids = Append(dec.ids, sec_id),
                     !.module.custom_sec = Append(@, custom.val)]
\* read_sections without `sec_id <= prev_sec_id`
read_sections_any_order(dec, id) ==
    IF id.val = SEC_CUSTOM_ID
    THEN read_sections_custom(dec, id.val, read_custom_sec(id.rd))
    ELSE IF id.val > SEC_DATA_ID
         THEN Aborted(dec, id.rd, Append(dec.ids, id.val))
    ELSE read_sections_len(dec, id.val, read_var_u32(id.rd))
read_sections_id(dec, id) ==
    IF id.val = SEC_CUSTOM_ID
    THEN read_sections_custom(dec, id.val, read_custom_sec(id.rd))
    ELSE IF id.val > SEC_DATA_ID \/ id.val <= dec.prev_sec_id
         THEN Aborted(dec, id.rd, Append(dec.ids, id.val))
    ELSE read_sections_len(dec, id.val, read_var_u32(id.rd))
read_sections(dec) == read_sections_id(dec, read_byte(dec.rd))

\* read_module: once the header is read, read_sections begins
read_module_sections(dec, m) ==
    IF m.rd.panicked THEN [dec EXCEPT !.rd = m.rd]
    ELSE Decoder(m.rd, m.val, 0, "read_sections", <<>>)


\* ------------------------------------------------------------------ state
VARIABLES
    input,          \* the input the decoded Module was built from
    operand_stack,  \* VM.operand_stack.slots
    control_stack,  \* VM.control_stack.frames
    local_0_idx,    \* VM.local_0_idx
    memory,         \* VM.memory
    globals,        \* VM.globals
    vm_funcs,       \* VM.vm_funcs
    table,          \* VM.table
    panicked,       \* a panic has aborted the process
    pc,             \* where exec_main / main_loop stands
    depth,          \* main_loop's `depth`
    decoder,        \* decode_file: the WasmReader and the Module it fills
    last            \* the step taken last, with the VM as it was before it

vars == << input, operand_stack, control_stack, local_0_idx, memory,
           globals, vm_funcs, table, panicked, pc, depth, decoder, last >>

\* VM.module: the Module the VM borrows, which never changes
module == ModuleOf(input)

\* the VM as one record, with the build it runs in: whether the binary was
\* compiled with overflow checks (a debug build) or without (a release build)
VM ==
    [ operand_stack |-> operand_stack, module |-> module, memory |-> memory,
      local_0_idx |-> local_0_idx, globals |-> globals,
      control_stack |-> control_stack, vm_funcs |-> vm_funcs,
      table |-> table, panicked |-> panicked,
      overflow_checks |-> input.overflow_checks ]

\* the fields of the VM that change
Snapshot ==
    [ operand_stack |-> operand_stack, memory |-> memory,
      local_0_idx |-> local_0_idx, globals |-> globals,
      control_stack |-> control_stack, vm_funcs |-> vm_funcs,
      table |-> table, panicked |-> panicked ]

Commit(vm) ==
    /\ operand_stack' = vm.operand_stack
    /\ memory' = vm.memory
    /\ local_0_idx' = vm.local_0_idx
    /\ globals' = vm.globals
    /\ control_stack' = vm.control_stack
    /\ vm_funcs' = vm.vm_funcs
    /\ table' = vm.table
    /\ panicked' = vm.panicked
    /\ input' = input
    /\ decoder' = decoder

Record(op, instr) == last' = [op |-> op, instr |-> instr, pre |-> Snapshot]

\* exec_main: `let mut vm = VM::new(module)`, for a module out of `inputs`
Start(inputs) ==
    /\ input \in inputs
    /\ operand_stack = VM_new(module).operand_stack
    /\ control_stack = VM_new(module).control_stack
    /\ local_0_idx = VM_new(module).local_0_idx
    /\ memory = VM_new(module).memory
    /\ globals = VM_new(module).globals
    /\ vm_funcs = VM_new(module).vm_funcs
    /\ table = VM_new(module).table
    /\ panicked = FALSE
    /\ pc = "init_memory"
    /\ depth = 0
    /\ decoder = FileDecoded
    /\ last = [op |-> "new", instr |-> None, pre |-> Snapshot]

Init == Start(Inputs)

\* ------------------------------------------------------------- exec_main
InitMemory ==
    /\ pc = "init_memory" /\ ~panicked
    /\ Commit(init_memory(VM, module.data_sec))
    /\ pc' = "init_globals"
    /\ Record("init_memory", None)
    /\ UNCHANGED depth

InitGlobals ==
    /\ pc = "init_globals" /\ ~panicked
    /\ Commit(init_globals(VM, module.global_sec))
    /\ pc' = "init_funcs"
    /\ Record("init_globals", None)
    /\ UNCHANGED depth

InitFuncs ==
    /\ pc = "init_funcs" /\ ~panicked
    /\ Commit(init_funcs(VM))
    /\ pc' = "init_table"
    /\ Record("init_funcs", None)
    /\ UNCHANGED depth

InitTable ==
    /\ pc = "init_table" /\ ~panicked
    /\ Commit(init_table(VM))
    /\ pc' = "call"
    /\ Record("init_table", None)
    /\ UNCHANGED depth

\* the entry call looking for the export `main` first
call_entry_main_first(vm) ==
    IF IsSome(get_main_idx(vm.module.export_sec))
    THEN call(vm, Unwrap(get_main_idx(vm.module.export_sec)))
    ELSE IF IsSome(vm.module.start_sec)
         THEN call(vm, Unwrap(vm.module.start_sec))
         ELSE Panic(vm)

\* the entry call of exec_main
call_entry(vm) ==
    IF IsSome(vm.module.start_sec) THEN call(vm, Unwrap(vm.module.start_sec))
    ELSE IF IsSome(get_main_idx(vm.module.export_sec))
         THEN call(vm, Unwrap(get_main_idx(vm.module.export_sec)))
         ELSE Panic(vm)

CallEntry ==
    /\ pc = "call" /\ ~panicked
    /\ Commit(call_entry(VM))
    /\ pc' = "main_loop"
    /\ Record("call_entry", None)
    /\ UNCHANGED depth

\* ------------------------------------------------------------- main_loop
\* `let depth = self.control_stack.control_depth()`
MainLoopEnter ==
    /\ pc = "main_loop" /\ ~panicked
    /\ depth' = control_depth(VM)
    /\ pc' = "loop"
    /\ Record("main_loop", None)
    /\ UNCHANGED << input, operand_stack, control_stack, local_0_idx, memory,
                    globals, vm_funcs, table, panicked, decoder >>

\* main_loop returning as soon as the depth is back at the recorded one
MainLoopReturnEarly ==
    /\ pc = "loop" /\ ~panicked
    /\ control_depth(VM) <= depth
    /\ pc' = "done"
    /\ Record("main_loop_return", None)
    /\ UNCHANGED << input, operand_stack, control_stack, local_0_idx, memory,
                    globals, vm_funcs, table, panicked, decoder, depth >>

\* the loop condition is false: main_loop and exec_main return
MainLoopReturn ==
    /\ pc = "loop" /\ ~panicked
    /\ control_depth(VM) < depth
    /\ pc' = "done"
    /\ Record("main_loop_return", None)
    /\ UNCHANGED << input, operand_stack, control_stack, local_0_idx, memory,
                    globals, vm_funcs, table, panicked, decoder, depth >>

Looping == pc = "loop" /\ ~panicked /\ control_depth(VM) >= depth

\* the top frame has run to the end of its body (top_control_frame panics on
\* an empty control stack)
ExitBlock ==
    /\ Looping
    /\ \/ control_depth(VM) = 0
       \/ top_control_frame(VM).pc = Len(top_control_frame(VM).instrs)
    /\ Commit(IF control_depth(VM) = 0 THEN Panic(VM) ELSE exit_block(VM))
    /\ Record("exit_block", None)
    /\ UNCHANGED << pc, depth >>

\* the instruction the top frame is at
CurInstr == top_control_frame(VM).instrs[top_control_frame(VM).pc + 1]

\* `cf.pc += 1`
Fetched == [VM EXCEPT !.control_stack[Len(control_stack)].pc = @ + 1]

\* the loop body's else-arm, for an instruction of opcode op
Dispatch(op) ==
    /\ Looping
    /\ control_depth(VM) > 0
    /\ top_control_frame(VM).pc # Len(top_control_frame(VM).instrs)
    /\ CurInstr.opcode = op
    /\ Record(op, CurInstr)
    /\ UNCHANGED << pc, depth >>

ExecI32Const == Dispatch("i32.const") /\ Commit(i32_const(Fetched, CurInstr.args))
ExecI64Const == Dispatch("i64.const") /\ Commit(i64_const(Fetched, CurInstr.args))
ExecF32Const == Dispatch("f32.const") /\ Commit(f32_const(Fetched, CurInstr.args))
ExecF64Const == Dispatch("f64.const") /\ Commit(f64_const(Fetched, CurInstr.args))
ExecDrop == Dispatch("drop") /\ Commit(drop_value(Fetched))
ExecLocalGet == Dispatch("local.get") /\ Commit(local_get(Fetched, CurInstr.args))
ExecLocalSet == Dispatch("local.set") /\ Commit(local_set(Fetched, CurInstr.args))
ExecLocalTee == Dispatch("local.tee") /\ Commit(local_tee(Fetched, CurInstr.args))
ExecI32Add == Dispatch("i32.add") /\ Commit(i32_add(Fetched))
ExecI32LeS == Dispatch("i32.le_s") /\ Commit(i32_les(Fetched))
ExecMemorySize == Dispatch("memory.size") /\ Commit(memory_size(Fetched))
ExecMemoryGrow == Dispatch("memory.grow") /\ Commit(memory_grow(Fetched))
ExecI32Load == Dispatch("i32.load") /\ Commit(i32_load(Fetched, CurInstr.args))
ExecI32Store == Dispatch("i32.store") /\ Commit(i32_store(Fetched, CurInstr.args))
ExecI64Load == Dispatch("i64.load") /\ Commit(i64_load(Fetched, CurInstr.args))
ExecF32Load == Dispatch("f32.load") /\ Commit(f32_load(Fetched, CurInstr.args))
ExecF64Load == Dispatch("f64.load") /\ Commit(f64_load(Fetched, CurInstr.args))
ExecI32Load8s == Dispatch("i32.load8_s") /\ Commit(i32_load_8s(Fetched, CurInstr.args))
ExecI32Load8u == Dispatch("i32.load8_u") /\ Commit(i32_load_8u(Fetched, CurInstr.args))
ExecI32Load16s == Dispatch("i32.load16_s") /\ Commit(i32_load_16s(Fetched, CurInstr.args))
ExecI32Load16u == Dispatch("i32.load16_u") /\ Commit(i32_load_16u(Fetched, CurInstr.args))
ExecI64Load8s == Dispatch("i64.load8_s") /\ Commit(i64_load_8s(Fetched, CurInstr.args))
ExecI64Load8u == Dispatch("i64.load8_u") /\ Commit(i64_load_8u(Fetched, CurInstr.args))
ExecI64Load16s == Dispatch("i64.load16_s") /\ Commit(i64_load_16s(Fetched, CurInstr.args))
ExecI64Load16u == Dispatch("i64.load16_u") /\ Commit(i64_load_16u(Fetched, CurInstr.args))
ExecI64Load32s == Dispatch("i64.load32_s") /\ Commit(i64_load_32s(Fetched, CurInstr.args))
ExecI64Load32u == Dispatch("i64.load32_u") /\ Commit(i64_load_32u(Fetched, CurInstr.args))
ExecI64Store == Dispatch("i64.store") /\ Commit(i64_store(Fetched, CurInstr.args))
ExecF32Store == Dispatch("f32.store") /\ Commit(f32_store(Fetched, CurInstr.args))
ExecF64Store == Dispatch("f64.store") /\ Commit(f64_store(Fetched, CurInstr.args))
ExecI32Store8 == Dispatch("i32.store8") /\ Commit(i32_store_8(Fetched, CurInstr.args))
ExecI32Store16 == Dispatch("i32.store16") /\ Commit(i32_store_16(Fetched, CurInstr.args))
ExecI64Store8 == Dispatch("i64.store8") /\ Commit(i64_store_8(Fetched, CurInstr.args))
ExecI64Store16 == Dispatch("i64.store16") /\ Commit(i64_store_16(Fetched, CurInstr.args))
ExecI64Store32 == Dispatch("i64.store32") /\ Commit(i64_store_32(Fetched, CurInstr.args))
ExecI32Sub == Dispatch("i32.sub") /\ Commit(i32_sub(Fetched))
ExecI32Mul == Dispatch("i32.mul") /\ Commit(i32_mul(Fetched))
ExecI32DivS == Dispatch("i32.div_s") /\ Commit(i32_divs(Fetched))
ExecI32DivU == Dispatch("i32.div_u") /\ Commit(i32_divu(Fetched))
ExecI32RemS == Dispatch("i32.rem_s") /\ Commit(i32_rems(Fetched))
ExecI32RemU == Dispatch("i32.rem_u") /\ Commit(i32_remu(Fetched))
ExecI32Shl == Dispatch("i32.shl") /\ Commit(i32_shl(Fetched))
ExecI32ShrS == Dispatch("i32.shr_s") /\ Commit(i32_shrs(Fetched))
ExecI32ShrU == Dispatch("i32.shr_u") /\ Commit(i32_shru(Fetched))
ExecI32Rotl == Dispatch("i32.rotl") /\ Commit(i32_rotl(Fetched))
ExecI32Rotr == Dispatch("i32.rotr") /\ Commit(i32_rotr(Fetched))
ExecI64Add == Dispatch("i64.add") /\ Commit(i64_add(Fetched))
ExecI64Sub == Dispatch("i64.sub") /\ Commit(i64_sub(Fetched))
ExecI64Mul == Dispatch("i64.mul") /\ Commit(i64_mul(Fetched))
ExecI64DivS == Dispatch("i64.div_s") /\ Commit(i64_divs(Fetched))
ExecI64DivU == Dispatch("i64.div_u") /\ Commit(i64_divu(Fetched))
ExecI64RemS == Dispatch("i64.rem_s") /\ Commit(i64_rems(Fetched))
ExecI64RemU == Dispatch("i64.rem_u") /\ Commit(i64_remu(Fetched))
ExecI64Shl == Dispatch("i64.shl") /\ Commit(i64_shl(Fetched))
ExecI64ShrS == Dispatch("i64.shr_s") /\ Commit(i64_shrs(Fetched))
ExecI64ShrU == Dispatch("i64.shr_u") /\ Commit(i64_shru(Fetched))
ExecI64Rotl == Dispatch("i64.rotl") /\ Commit(i64_rotl(Fetched))
ExecI64Rotr == Dispatch("i64.rotr") /\ Commit(i64_rotr(Fetched))
ExecI32TruncF32S == Dispatch("i32.trunc_f32_s") /\ Commit(i32_trunc_f32(Fetched))
ExecI32TruncF32U == Dispatch("i32.trunc_f32_u") /\ Commit(u32_trunc_f32(Fetched))
ExecI32TruncF64S == Dispatch("i32.trunc_f64_s") /\ Commit(i32_trunc_f64(Fetched))
ExecI32TruncF64U == Dispatch("i32.trunc_f64_u") /\ Commit(u32_trunc_f64(Fetched))
ExecI64TruncF32S == Dispatch("i64.trunc_f32_s") /\ Commit(i64_trunc_f32(Fetched))
ExecI64TruncF32U == Dispatch("i64.trunc_f32_u") /\ Commit(u64_trunc_f32(Fetched))
ExecI64TruncF64S == Dispatch("i64.trunc_f64_s") /\ Commit(i64_trunc_f64(Fetched))
ExecI64TruncF64U == Dispatch("i64.trunc_f64_u") /\ Commit(u64_trunc_f64(Fetched))
ExecGlobalGet == Dispatch("global.get") /\ Commit(global_get(Fetched, CurInstr.args))
ExecGlobalSet == Dispatch("global.set") /\ Commit(global_set(Fetched, CurInstr.args))
ExecBlock == Dispatch("block") /\ Commit(block(Fetched, CurInstr.args))
ExecLoop == Dispatch("loop") /\ Commit(loop_instr(Fetched, CurInstr.args))
ExecIf == Dispatch("if") /\ Commit(if_instr(Fetched, CurInstr.args))
ExecBr == Dispatch("br") /\ Commit(br(Fetched, CurInstr.args))
ExecBrIf == Dispatch("br_if") /\ Commit(br_if(Fetched, CurInstr.args))
ExecBrTable == Dispatch("br_table") /\ Commit(br_table(Fetched, CurInstr.args))
ExecReturn == Dispatch("return") /\ Commit(return_instr(Fetched))
ExecCall == Dispatch("call") /\ Commit(call(Fetched, CurInstr.args))
ExecCallIndirect ==
    Dispatch("call_indirect") /\ Commit(call_indrect(Fetched, CurInstr.args))

Next ==
    \/ InitMemory
    \/ InitGlobals
    \/ InitFuncs
    \/ InitTable
    \/ CallEntry
    \/ MainLoopEnter
    \/ MainLoopReturn
    \/ ExitBlock
    \/ ExecI32Const
    \/ ExecI64Const
    \/ ExecF32Const
    \/ ExecF64Const
    \/ ExecDrop
    \/ ExecLocalGet
    \/ ExecLocalSet
    \/ ExecLocalTee
    \/ ExecI32Add
    \/ ExecI32LeS
    \/ ExecMemorySize
    \/ ExecMemoryGrow
    \/ ExecI32Load
    \/ ExecI32Store
    \/ ExecBlock
    \/ ExecLoop
    \/ ExecIf
    \/ ExecBr
    \/ ExecBrIf
    \/ ExecBrTable
    \/ ExecReturn
    \/ ExecCall
    \/ ExecCallIndirect

Spec == Init /\ [][Next]_vars

\* The run of the loop-sum program: the steps of exec_main and, of the
\* instructions, those the program consists of.  The interpreter is one
\* sequential process that runs until it returns or panics.
SumInit == Init /\ input.entry = F_SUM

SumNext ==
    \/ InitMemory
    \/ InitGlobals
    \/ InitFuncs
    \/ InitTable
    \/ CallEntry
    \/ MainLoopEnter
    \/ MainLoopReturn
    \/ ExitBlock
    \/ ExecI32Const
    \/ ExecLocalGet
    \/ ExecLocalSet
    \/ ExecLocalTee
    \/ ExecI32Add
    \/ ExecI32LeS
    \/ ExecLoop
    \/ ExecBrIf
    \/ ExecCall

SumSpec == SumInit /\ [][SumNext]_vars /\ WF_vars(SumNext)

\* The runs of the global accesses.
GlobInit == Start(GlobInputs)

GlobNext ==
    \/ InitMemory
    \/ InitGlobals
    \/ InitFuncs
    \/ InitTable
    \/ CallEntry
    \/ MainLoopEnter
    \/ MainLoopReturn
    \/ ExitBlock
    \/ ExecI32Const
    \/ ExecDrop
    \/ ExecGlobalGet
    \/ ExecGlobalSet

GlobSpec == GlobInit /\ [][GlobNext]_vars

\* The runs of the programs on locals.
TeeInit == Start(TeeInputs)

TeeNext ==
    \/ InitMemory
    \/ InitGlobals
    \/ InitFuncs
    \/ InitTable
    \/ CallEntry
    \/ MainLoopEnter
    \/ MainLoopReturn
    \/ ExitBlock
    \/ ExecI32Const
    \/ ExecDrop
    \/ ExecLocalGet
    \/ ExecLocalSet
    \/ ExecLocalTee

TeeSpec == TeeInit /\ [][TeeNext]_vars

\* The runs of the shifts and rotations.
ShiftInit == Start(ShiftInputs)

ShiftNext ==
    \/ InitMemory
    \/ InitGlobals
    \/ InitFuncs
    \/ InitTable
    \/ CallEntry
    \/ MainLoopEnter
    \/ MainLoopReturn
    \/ ExitBlock
    \/ ExecI32Const
    \/ ExecI64Const
    \/ ExecDrop
    \/ ExecI32Shl
    \/ ExecI32ShrS
    \/ ExecI32ShrU
    \/ ExecI32Rotl
    \/ ExecI32Rotr
    \/ ExecI64Shl
    \/ ExecI64ShrS
    \/ ExecI64ShrU
    \/ ExecI64Rotl
    \/ ExecI64Rotr

ShiftSpec == ShiftInit /\ [][ShiftNext]_vars

\* The runs of the divisions and remainders.
DivInit == Start(DivInputs)

DivNext ==
    \/ InitMemory
    \/ InitGlobals
    \/ InitFuncs
    \/ InitTable
    \/ CallEntry
    \/ MainLoopEnter
    \/ MainLoopReturn
    \/ ExitBlock
    \/ ExecI32Const
    \/ ExecI64Const
    \/ ExecDrop
    \/ ExecI32DivS
    \/ ExecI32DivU
    \/ ExecI32RemS
    \/ ExecI32RemU
    \/ ExecI64DivS
    \/ ExecI64DivU
    \/ ExecI64RemS
    \/ ExecI64RemU

DivSpec == DivInit /\ [][DivNext]_vars

\* The runs of the additions, subtractions and multiplications.
AddInit == Start(AddInputs)

AddNext ==
    \/ InitMemory
    \/ InitGlobals
    \/ InitFuncs
    \/ InitTable
    \/ CallEntry
    \/ MainLoopEnter
    \/ MainLoopReturn
    \/ ExitBlock
    \/ ExecI32Const
    \/ ExecI64Const
    \/ ExecDrop
    \/ ExecI32Add
    \/ ExecI32Sub
    \/ ExecI32Mul
    \/ ExecI64Add
    \/ ExecI64Sub
    \/ ExecI64Mul

AddSpec == AddInit /\ [][AddNext]_vars

\* The runs of the float-to-integer truncations.
TruncInit == Start(TruncInputs)

TruncNext ==
    \/ InitMemory
    \/ InitGlobals
    \/ InitFuncs
    \/ InitTable
    \/ CallEntry
    \/ MainLoopEnter
    \/ MainLoopReturn
    \/ ExitBlock
    \/ ExecF32Const
    \/ ExecF64Const
    \/ ExecDrop
    \/ ExecI32TruncF32S
    \/ ExecI32TruncF32U
    \/ ExecI32TruncF64S
    \/ ExecI32TruncF64U
    \/ ExecI64TruncF32S
    \/ ExecI64TruncF32U
    \/ ExecI64TruncF64S
    \/ ExecI64TruncF64U

TruncSpec == TruncInit /\ [][TruncNext]_vars

\* The runs of the loads and stores.
LsInit == Start(LsInputs)

LsNext ==
    \/ InitMemory
    \/ InitGlobals
    \/ InitFuncs
    \/ InitTable
    \/ CallEntry
    \/ MainLoopEnter
    \/ MainLoopReturn
    \/ ExitBlock
    \/ ExecI32Const
    \/ ExecI64Const
    \/ ExecF32Const
    \/ ExecF64Const
    \/ ExecDrop
    \/ ExecI32Load
    \/ ExecI32Store
    \/ ExecI64Load
    \/ ExecF32Load
    \/ ExecF64Load
    \/ ExecI32Load8s
    \/ ExecI32Load8u
    \/ ExecI32Load16s
    \/ ExecI32Load16u
    \/ ExecI64Load8s
    \/ ExecI64Load8u
    \/ ExecI64Load16s
    \/ ExecI64Load16u
    \/ ExecI64Load32s
    \/ ExecI64Load32u
    \/ ExecI64Store
    \/ ExecF32Store
    \/ ExecF64Store
    \/ ExecI32Store8
    \/ ExecI32Store16
    \/ ExecI64Store8
    \/ ExecI64Store16
    \/ ExecI64Store32

LsSpec == LsInit /\ [][LsNext]_vars

\* The operand stack on its own, as test_operand_stack drives it: a sequence
\* of typed pushes, then every slot popped with the type it was pushed as.
MaxPush == 2

StackTypes == {"bool", "u32", "i32", "u64", "i64", "f32", "f64"}

\* the k-th value of each type: 4294967295 and 1; -2 and i32::MAX; u64::MAX
\* and 3; -4 and i64::MIN; -0.0 and 5.5; -1.0 and 6.5
StackVals(ty) ==
    CASE ty = "bool" -> <<TRUE, FALSE>>
      [] ty = "u32" -> <<-1, 1>>
      [] ty = "i32" -> <<-2, 2147483647>>
      [] ty = "u64" -> << <<-1, -1>>, <<0, 3>> >>
      [] ty = "i64" -> << <<-1, -4>>, <<-2147483647 - 1, 0>> >>
      [] ty = "f32" -> <<-2147483647 - 1, 1085276160>>
      [] ty = "f64" -> << <<-1074790400, 0>>, <<1075445760, 0>> >>

Typed == [ty : StackTypes, k : 1..2]
ValOf(tv) == [ty |-> tv.ty, val |-> StackVals(tv.ty)[tv.k]]

StackSeqs(n) == [1..n -> Typed]

StackInputs ==
    {[In0 EXCEPT !.pushes = ps] : ps \in UNION {StackSeqs(n) : n \in 1..MaxPush}}

\* `let mut stack = OperandStack::new()`
StackInit ==
    /\ input \in StackInputs
    /\ operand_stack = VM_new(module).operand_stack
    /\ control_stack = VM_new(module).control_stack
    /\ local_0_idx = VM_new(module).local_0_idx
    /\ memory = VM_new(module).memory
    /\ globals = VM_new(module).globals
    /\ vm_funcs = VM_new(module).vm_funcs
    /\ table = VM_new(module).table
    /\ panicked = FALSE
    /\ pc = "push"
    /\ depth = 0
    /\ decoder = FileDecoded
    /\ last = [op |-> "new", instr |-> None, pre |-> Snapshot]

\* the value the next push pushes, the value the next pop is to give back
NextPush == ValOf(input.pushes[Len(operand_stack) + 1])
NextPop == ValOf(input.pushes[Len(operand_stack)])

StackPush(ty, vm) ==
    /\ pc = "push" /\ ~panicked
    /\ Len(operand_stack) < Len(input.pushes)
    /\ NextPush.ty = ty
    /\ Commit(vm)
    /\ pc' = IF Len(operand_stack) + 1 = Len(input.pushes) THEN "pop" ELSE "push"
    /\ Record("push", NextPush)
    /\ UNCHANGED depth

StackPop(ty, popped) ==
    /\ pc = "pop" /\ ~panicked
    /\ Len(operand_stack) > 0
    /\ NextPop.ty = ty
    /\ Commit(popped.vm)
    /\ pc' = IF Len(operand_stack) = 1 THEN "done" ELSE "pop"
    /\ Record("pop", [ty |-> ty, val |-> popped.val])
    /\ UNCHANGED depth

PushBool == StackPush("bool", push_bool(VM, NextPush.val))
PushU32 == StackPush("u32", push_u32(VM, NextPush.val))
PushI32 == StackPush("i32", push_i32(VM, NextPush.val))
PushU64 == StackPush("u64", push_u64(VM, NextPush.val))
PushI64 == StackPush("i64", push_i64(VM, NextPush.val))
PushF32 == StackPush("f32", push_f32(VM, NextPush.val))
PushF64 == StackPush("f64", push_f64(VM, NextPush.val))
PopBool == StackPop("bool", pop_bool(VM))
PopU32 == StackPop("u32", pop_u32(VM))
PopI32 == StackPop("i32", pop_i32(VM))
PopU64 == StackPop("u64", pop_as(VM, top_u64(VM)))
PopI64 == StackPop("i64", pop_i64(VM))
PopF32 == StackPop("f32", pop_f32(VM))
PopF64 == StackPop("f64", pop_f64(VM))

StackNext ==
    \/ PushBool
    \/ PushU32
    \/ PushI32
    \/ PushU64
    \/ PushI64
    \/ PushF32
    \/ PushF64
    \/ PopBool
    \/ PopU32
    \/ PopI32
    \/ PopU64
    \/ PopI64
    \/ PopF32
    \/ PopF64

StackSpec == StackInit /\ [][StackNext]_vars


\* ------------------------------------------------- calls of host functions
\* the k-th operand of a parameter of type vt, as a constant instruction
ArgConst(vt, k) ==
    IF vt = "i32" THEN Const(k)
    ELSE IF vt = "i64" THEN Instr("i64.const", ArgI64(k))
    ELSE IF vt = "f32" THEN Instr("f32.const", ArgF32(k))
    ELSE Instr("f64.const", ArgF64(k))
\* host: the operands a (and b) of the parameter types pts pushed above an
\* operand that is not the call's own, the call of callee, and a drop
HostCode(callee, pts, a, b) ==
    Code(<<>>,
      << Const(7) >>
      \o [k \in 1..Len(pts) |-> ArgConst(pts[k], IF k = 1 THEN a ELSE b)]
      \o << Instr("call", callee), Nullary("drop") >>)

HostFuncs ==
    {FuncIdx(n) : n \in {"print_char", "assert_true", "assert_false",
                         "assert_eq_i32", "assert_eq_i64", "assert_eq_f32",
                         "assert_eq_f64"}}
\* the type the module declares for the import callee, assert_eq_i64 being
\* declared with the type t
DeclaredType(callee, t) ==
    IF At(FuncNames, callee) = "assert_eq_i64" THEN t
    ELSE IF At(FuncNames, callee) = "assert_eq_i32" THEN T_II_V
    ELSE IF At(FuncNames, callee) = "assert_eq_f32" THEN T_FF_V
    ELSE IF At(FuncNames, callee) = "assert_eq_f64" THEN T_DD_V
    ELSE T_I_V
HostCalls ==
    {[callee |-> f, t |-> T_LL_V] : f \in HostFuncs}
    \cup {[callee |-> FuncIdx("assert_eq_i64"), t |-> T_LI_V]}

HostInputs ==
    \* a function calls the host function
    {[Run(F_TEST, FALSE) EXCEPT
          !.imp_type = c.t,
          !.test = HostCode(c.callee,
                            At(TypeSec, DeclaredType(c.callee, c.t)).params_types,
                            a, b)] :
        c \in HostCalls, a \in 0..MaxArg, b \in 0..MaxArg}
    \cup
    \* the host function is the entry function, named by the start section
    \* or by the export `main`; assert_eq_i64 also declared without parameters
    {[Run(c.callee, e) EXCEPT !.imp_type = c.t, !.has_table = h] :
        c \in HostCalls \cup {[callee |-> FuncIdx("assert_eq_i64"), t |-> T_VOID]},
        e \in BOOLEAN, h \in BOOLEAN}

HostInit == Start(HostInputs)

HostNext ==
    \/ InitMemory
    \/ InitGlobals
    \/ InitFuncs
    \/ InitTable
    \/ CallEntry
    \/ MainLoopEnter
    \/ MainLoopReturn
    \/ ExitBlock
    \/ ExecI32Const
    \/ ExecI64Const
    \/ ExecF32Const
    \/ ExecF64Const
    \/ ExecDrop
    \/ ExecCall

HostSpec == HostInit /\ [][HostNext]_vars


\* ------------------------------------------------ entering a function
\* loc: a function that reads each of its parameters and locals once
RECURSIVE ReadLocals(_, _)
ReadLocals(i, n) ==
    IF i >= n THEN <<>>
    ELSE << Instr("local.get", i), Nullary("drop") >> \o ReadLocals(i + 1, n)
LocCode(t, groups) ==
    Code(groups,
         ReadLocals(0, Len(At(TypeSec, t).params_types) + get_local_count(groups)))
\* its caller: an operand that is not the call's own, the arguments, the call
LocMainCode(t, a, b) ==
    Code(<<>>,
      << Const(7) >>
      \o SubSeq(<< Const(a), Const(b) >>, 1, Len(At(TypeSec, t).params_types))
      \o << Instr("call", F_LOC), Nullary("drop") >>)

\* the locals declared: none, one group, and several groups of several
\* types, one of them empty
LocGroups ==
    {<<>>, <<Locals(1, "i32")>>, <<Locals(1, "i32"), Locals(2, "i64")>>,
     <<Locals(2, "f32"), Locals(0, "i32"), Locals(1, "f64")>>}

CallInputs ==
    {[Run(F_TEST, FALSE) EXCEPT !.loc_type = t, !.loc = LocCode(t, groups),
                                !.test = LocMainCode(t, a, b)] :
        t \in {T_VOID, T_I_V, T_II_V}, groups \in LocGroups,
        a \in 1..MaxArg, b \in 1..MaxArg}

CallInit == Start(CallInputs)

CallNext ==
    \/ InitMemory
    \/ InitGlobals
    \/ InitFuncs
    \/ InitTable
    \/ CallEntry
    \/ MainLoopEnter
    \/ MainLoopReturn
    \/ ExitBlock
    \/ ExecI32Const
    \/ ExecDrop
    \/ ExecLocalGet
    \/ ExecCall

CallSpec == CallInit /\ [][CallNext]_vars


\* ------------------------------------------------------- decoding a file
\* The files the decoder is run on: a header and up to MaxSecs sections,
\* each with a body that decodes and a length field equal to its body.
MaxSecs == 3

\* a section with tag `id`: a custom section named "a" with one byte of
\* payload, a type section with the type [] -> [], a function section with
\* one index, a memory section with one memory, a start section, and for any
\* other tag (the invalid tag 12 too) a vector without entries
SectionBytes(id) ==
    CASE id = SEC_CUSTOM_ID -> <<id, 3, 1, 97, 7>>
      [] id = SEC_TYPE_ID -> <<id, 4, 1, 96, 0, 0>>
      [] id = SEC_FUNC_ID -> <<id, 2, 1, 0>>
      [] id = SEC_MEM_ID -> <<id, 3, 1, 0, 1>>
      [] OTHER -> <<id, 1, 0>>
RECURSIVE SectionsBytes(_)
SectionsBytes(ids) ==
    IF Len(ids) = 0 THEN <<>>
    ELSE SectionBytes(ids[1]) \o SectionsBytes(Tail(ids))
FileOf(magic, version, ids) ==
    u32_to_le_bytes(magic) \o u32_to_le_bytes(version) \o SectionsBytes(ids)

SecTags ==
    {SEC_CUSTOM_ID, SEC_TYPE_ID, SEC_FUNC_ID, SEC_START_ID, SEC_DATA_ID,
     SEC_DATA_ID + 1}
TagSeqs(n) == UNION {[1..k -> SecTags] : k \in 0..n}
\* the section tags a file of the model was built from
TagsOf(inp) == inp.tags

DecInputs ==
    {[In0 EXCEPT !.file = FileOf(MAGIC_NUMBER, VERSION, ids), !.tags = ids,
                 !.overflow_checks = checks] :
        ids \in TagSeqs(MaxSecs), checks \in BOOLEAN}

\* files with any header: the magic or the version right or wrong
Magics == {MAGIC_NUMBER, 0, MAGIC_NUMBER + 1}
Versions == {VERSION, 0, VERSION + 1}
MagicInputs ==
    {[In0 EXCEPT !.file = FileOf(magic, version, ids), !.tags = ids,
                 !.magic = magic, !.version = version] :
        magic \in Magics, version \in Versions, ids \in TagSeqs(1)}
    \cup {[In0 EXCEPT !.file = SubSeq(FileOf(MAGIC_NUMBER, VERSION, <<>>), 1, k)] :
              k \in 0..7}

\* main: `WasmReader::decode_file(args.file)` on the file of an input
DecodeStart(inputs) ==
    /\ input \in inputs
    /\ operand_stack = VM_new(module).operand_stack
    /\ control_stack = VM_new(module).control_stack
    /\ local_0_idx = VM_new(module).local_0_idx
    /\ memory = VM_new(module).memory
    /\ globals = VM_new(module).globals
    /\ vm_funcs = VM_new(module).vm_funcs
    /\ table = VM_new(module).table
    /\ panicked = FALSE
    /\ pc = "decode_file"
    /\ depth = 0
    /\ decoder = decode_file(input.file, input.overflow_checks)
    /\ last = [op |-> "new", instr |-> None, pre |-> Snapshot]

Decode(op, dec) ==
    /\ pc = "decode_file"
    /\ ~decoder.rd.panicked
    /\ ~dec.rd.beyond
    /\ decoder' = dec
    /\ Record(op, None)
    /\ UNCHANGED << input, operand_stack, control_stack, local_0_idx, memory,
                    globals, vm_funcs, table, panicked, pc, depth >>

\* read_module up to its call of read_sections
ReadModule ==
    /\ decoder.at = "read_module"
    /\ Decode("read_module",
              read_module_sections(decoder, read_module(decoder.rd)))

\* read_sections: one iteration of `while self.remaining() > 0`
ReadSection ==
    /\ decoder.at = "read_sections"
    /\ remaining(decoder.rd) > 0
    /\ Decode("read_sections", read_sections(decoder))

\* read_sections, read_module and decode_file return: `Ok(module)`
ReturnModule ==
    /\ decoder.at = "read_sections"
    /\ remaining(decoder.rd) = 0
    /\ Decode("decode_file", [decoder EXCEPT !.at = "done"])

DecNext ==
    \/ ReadModule
    \/ ReadSection
    \/ ReturnModule

DecInit == DecodeStart(DecInputs)
DecSpec == DecInit /\ [][DecNext]_vars

MagicInit == DecodeStart(MagicInputs)
MagicSpec == MagicInit /\ [][DecNext]_vars


\* ----------------------------------------------------- decoding LEB128
\* The canonical (shortest) LEB128 encodings of an integer of 8 bytes
RECURSIVE Leb128(_)
Leb128(v) ==
    IF bytes_is_zero(bytes_shr_u(v, 7)) THEN <<v[1] % 128>>
    ELSE <<128 + (v[1] % 128)>> \o Leb128(bytes_shr_u(v, 7))
RECURSIVE Sleb128(_)
Sleb128(v) ==
    IF \/ bytes_is_zero(bytes_shr_s(v, 7)) /\ v[1] % 128 < 64
       \/ bytes_is_minus_one(bytes_shr_s(v, 7)) /\ v[1] % 128 >= 64
    THEN <<v[1] % 128>>
    ELSE <<128 + (v[1] % 128)>> \o Sleb128(bytes_shr_s(v, 7))

\* unsigned values: 0, 127, 128, 624485, 2^32 - 1, 2^63, 2^64 - 1
LebUints ==
    {<<0, 0>>, <<0, 127>>, <<0, 128>>, <<0, 624485>>, <<0, -1>>,
     <<-2147483647 - 1, 0>>, <<-1, -1>>}
\* 32-bit values: 0, 63, 64, -64, -65, -123456, the maximum, the minimum
LebInt32s == {0, 63, 64, -64, -65, -123456, 2147483647, -2147483647 - 1}
\* 64-bit values: -1, -123456, 2^62, -2^62, -2^62 - 1, the maximum, the minimum
LebInt64s ==
    {<<-1, -1>>, <<-1, -123456>>, <<1073741824, 0>>, <<-1073741824, 0>>,
     <<-1073741825, -1>>, <<2147483647, -1>>, <<-2147483647 - 1, 0>>}
\* the bytes that follow an encoding
LebRests == {<<>>, <<0>>, <<255, 1>>}

Leb(kind, size, v, e, rest) ==
    [kind |-> kind, size |-> size, v |-> v, n |-> Len(e), data |-> e \o rest]
LebCases ==
    {Leb("uint", 64, u64_to_le_bytes(x), Leb128(u64_to_le_bytes(x)), rest) :
         x \in LebUints, rest \in LebRests}
    \cup {Leb("int", 32, u64_to_le_bytes(i32_as_u64(x)),
              Sleb128(u64_to_le_bytes(i32_as_u64(x))), rest) :
              x \in LebInt32s, rest \in LebRests}
    \cup {Leb("int", 64, u64_to_le_bytes(x), Sleb128(u64_to_le_bytes(x)), rest) :
              x \in LebInt64s, rest \in LebRests}
LebInputs ==
    {[In0 EXCEPT !.leb = c, !.overflow_checks = checks] :
        c \in LebCases, checks \in BOOLEAN}

LebInit ==
    /\ input \in LebInputs
    /\ operand_stack = VM_new(module).operand_stack
    /\ control_stack = VM_new(module).control_stack
    /\ local_0_idx = VM_new(module).local_0_idx
    /\ memory = VM_new(module).memory
    /\ globals = VM_new(module).globals
    /\ vm_funcs = VM_new(module).vm_funcs
    /\ table = VM_new(module).table
    /\ panicked = FALSE
    /\ pc = "leb128"
    /\ depth = 0
    /\ decoder = FileDecoded
    /\ last = [op |-> "new", instr |-> None, pre |-> Snapshot]

\* one call of a decoder on the bytes of the input
DecodeLeb(op, d) ==
    /\ pc = "leb128"
    /\ pc' = "done"
    /\ Record(op, d)
    /\ UNCHANGED << input, operand_stack, control_stack, local_0_idx, memory,
                    globals, vm_funcs, table, panicked, depth, decoder >>
DecodeVarUint ==
    /\ input.leb.kind = "uint"
    /\ DecodeLeb("decode_var_uint",
                 decode_var_uint(input.leb.data, input.overflow_checks))
DecodeVarInt ==
    /\ input.leb.kind = "int"
    /\ DecodeLeb("decode_var_int",
                 decode_var_int(input.leb.data, input.leb.size,
                                input.overflow_checks))
LebNext ==
    \/ DecodeVarUint
    \/ DecodeVarInt
LebSpec == LebInit /\ [][LebNext]_vars


\* ----------------------------------------------------------------- claims
\* The VM as the step taken last found it.
Pre ==
    [ operand_stack |-> last.pre.operand_stack, module |-> module,
      memory |-> last.pre.memory, local_0_idx |-> last.pre.local_0_idx,
      globals |-> last.pre.globals, control_stack |-> last.pre.control_stack,
      vm_funcs |-> last.pre.vm_funcs, table |-> last.pre.table,
      panicked |-> last.pre.panicked,
      overflow_checks |-> input.overflow_checks ]
PreStack == last.pre.operand_stack
PreFrames == last.pre.control_stack
\* the VM after main_loop's `cf.pc += 1`
FetchedOf(vm) == [vm EXCEPT !.control_stack[Len(vm.control_stack)].pc = @ + 1]

Below(slots, n) == SubSeq(slots, 1, n)
TopN(slots, k) == SubSeq(slots, Len(slots) - k + 1, Len(slots))
NParams(cf) == Len(cf.block_type.params_types)
NResults(cf) == Len(cf.block_type.result_types)
CallFrames(frames) == {j \in 1..Len(frames) : frames[j].opcode = "call"}
MaxOf(S) == CHOOSE x \in S : \A y \in S : y <= x
BranchOps == {"br", "br_if", "br_table", "return"}

\* C1: a normal exit (the top frame ran to the end of its body) leaves the
\* slots below the frame's base pointer, unchanged, followed by the
\* k = |result-types| slots that were on top, in order; the depth is bp + k.
C1_NormalExit ==
    (last.op = "exit_block" /\ ~panicked) =>
        LET cf == PreFrames[Len(PreFrames)]
        IN  /\ operand_stack =
                   Below(PreStack, cf.bp) \o TopN(PreStack, NResults(cf))
            /\ Len(operand_stack) = cf.bp + NResults(cf)
            /\ control_stack = Below(PreFrames, Len(PreFrames) - 1)

\* a Call frame with a result exits normally, above operands of its caller,
\* and its parameters and locals are dropped
C1_Witness ==
    /\ last.op = "exit_block" /\ ~panicked
    /\ LET cf == PreFrames[Len(PreFrames)]
       IN  /\ cf.opcode = "call"
           /\ NResults(cf) = 1
           /\ cf.bp > 0
           /\ Len(PreStack) > cf.bp + NResults(cf)

\* C2: the base pointer of every frame on the control stack is at most the
\* operand-stack depth.
C2_BpWithinDepth ==
    ~panicked =>
        \A j \in 1..Len(control_stack) :
            control_stack[j].bp <= Len(operand_stack)

\* C3: whenever the control stack holds a Call frame, local_0_idx is the
\* base pointer of the topmost one.
C3_Local0IsTopCallBp ==
    (~panicked /\ CallFrames(control_stack) # {}) =>
        local_0_idx = control_stack[MaxOf(CallFrames(control_stack))].bp

\* a recursive call has just returned into its caller, itself a callee
C3_Witness ==
    /\ ~panicked
    /\ last.op \in {"exit_block", "return", "br"}
    /\ Cardinality(CallFrames(PreFrames)) = 3
    /\ Cardinality(CallFrames(control_stack)) = 2
    /\ local_0_idx = control_stack[MaxOf(CallFrames(control_stack))].bp
    /\ local_0_idx # Pre.local_0_idx

\* C4: an internal function of type (p, r) called at depth D gets the base
\* pointer D - p; and when its Call frame is removed, at the end of its body
\* or by a branch from any nesting depth, the stack is the slots below that
\* base pointer followed by the top r slots: the depth is D - p + r.
C4_CallReturnBalance ==
    /\ (/\ ~panicked
        /\ last.op \in {"call", "call_indirect"}
        /\ Len(control_stack) = Len(PreFrames) + 1) =>
            LET cf == control_stack[Len(control_stack)]
                D == IF last.op = "call" THEN Len(PreStack)
                     ELSE Len(PreStack) - 1
            IN  /\ cf.opcode = "call"
                /\ cf.bp = D - NParams(cf)
                /\ cf.pc = 0
    /\ (/\ ~panicked
        /\ last.op \in BranchOps \cup {"exit_block"}
        /\ Cardinality(CallFrames(control_stack))
               < Cardinality(CallFrames(PreFrames))) =>
            LET j == MaxOf(CallFrames(PreFrames))
                cf == PreFrames[j]
            IN  /\ control_stack = Below(PreFrames, j - 1)
                /\ Len(operand_stack) = cf.bp + NResults(cf)
                /\ TopN(operand_stack, NResults(cf))
                       = TopN(PreStack, NResults(cf))
                /\ Below(operand_stack, cf.bp) = Below(PreStack, cf.bp)

\* a function with two parameters, a local and a result returns from inside
\* two nested frames
C4_Witness ==
    /\ ~panicked
    /\ last.op = "return"
    /\ LET j == MaxOf(CallFrames(PreFrames))
       IN  /\ Len(PreFrames) - j >= 2
           /\ NParams(PreFrames[j]) = 2
           /\ NResults(PreFrames[j]) = 1
           /\ Len(operand_stack) = PreFrames[j].bp + 1
           /\ Len(PreStack) > PreFrames[j].bp + 3

\* the target of the `br d` taken last is a loop
BrToLoop ==
    /\ last.op = "br"
    /\ last.instr.args < Len(PreFrames)
    /\ PreFrames[Len(PreFrames) - last.instr.args].opcode = "loop"

LoopReentered ==
    (BrToLoop /\ ~panicked) =>
        LET t == Len(PreFrames) - last.instr.args
            lf == PreFrames[t]
        IN  /\ Len(control_stack) = t
            /\ Below(control_stack, t - 1) = Below(PreFrames, t - 1)
            /\ control_stack[t] = [lf EXCEPT !.pc = 0]
            /\ operand_stack =
                   Below(PreStack, lf.bp) \o TopN(PreStack, NParams(lf))

FirstOfLoopNext ==
    (BrToLoop /\ ~panicked) =>
        /\ last'.op = control_stack[Len(control_stack)].instrs[1].opcode
        /\ last'.instr = control_stack[Len(control_stack)].instrs[1]

\* C5: `br d` to a loop keeps the loop's frame, sets its pc to 0, leaves the
\* slots below the loop's base pointer followed by the top |param-types|
\* slots, and the instruction dispatched next is the first of the loop body.
C5_BrToLoop == [] LoopReentered /\ [][FirstOfLoopNext]_vars

\* a back-edge from a frame inside the loop, carrying the loop's parameter
\* over an operand that is discarded
C5_Witness ==
    /\ BrToLoop /\ ~panicked
    /\ last.instr.args >= 1
    /\ LET lf == PreFrames[Len(PreFrames) - last.instr.args]
       IN  /\ NParams(lf) = 1
           /\ Len(PreStack) > lf.bp + 1
           /\ lf.bp > 0

\* the target of the `br d` taken last is a block, an if or a call frame
BrToNonLoop ==
    /\ last.op = "br"
    /\ last.instr.args < Len(PreFrames)
    /\ PreFrames[Len(PreFrames) - last.instr.args].opcode # "loop"

\* C6: `br d` to a block, if or call frame removes exactly d + 1 frames and
\* leaves the slots below the target's base pointer followed by the top
\* |result-types of the target| slots.
C6_BrToNonLoop ==
    (BrToNonLoop /\ ~panicked) =>
        LET d == last.instr.args
            tf == PreFrames[Len(PreFrames) - d]
        IN  /\ Len(control_stack) = Len(PreFrames) - (d + 1)
            /\ control_stack = Below(PreFrames, Len(PreFrames) - (d + 1))
            /\ operand_stack =
                   Below(PreStack, tf.bp) \o TopN(PreStack, NResults(tf))

\* a branch over an inner frame to a frame with a result, discarding
\* operands
C6_Witness ==
    /\ BrToNonLoop /\ ~panicked
    /\ last.instr.args = 1
    /\ LET tf == PreFrames[Len(PreFrames) - 1]
       IN  /\ NResults(tf) = 1
           /\ Len(PreStack) > tf.bp + 2
           /\ tf.bp > 0

\* C7: br_table pops i and branches as `br L_i` when i < k and as `br L_d`
\* (the default label) otherwise.
C7_BrTableBranches ==
    (last.op = "br_table" /\ Len(PreStack) > 0) =>
        LET i == u64_as_u32(PreStack[Len(PreStack)])
            a == last.instr.args
            target == IF u32_lt(i, Len(a.labels)) THEN At(a.labels, i)
                      ELSE a.default
        IN  VM = br(pop_u64(FetchedOf(Pre)), target)

\* C8: br_if pops the condition; non-zero, its effect is that of `br d`;
\* zero, the control stack and every pc stay as they were when the
\* instruction was dispatched and only the condition leaves the stack.
C8_BrIf ==
    (last.op = "br_if" /\ Len(PreStack) > 0) =>
        LET c == PreStack[Len(PreStack)]
        IN  IF Hi(c) # 0 \/ Lo(c) # 0
            THEN VM = br(pop_u64(FetchedOf(Pre)), last.instr.args)
            ELSE /\ ~panicked
                 /\ control_stack = FetchedOf(Pre).control_stack
                 /\ operand_stack = Below(PreStack, Len(PreStack) - 1)
                 /\ local_0_idx = Pre.local_0_idx

\* a br_if that is taken over two frames
C8_Witness ==
    /\ last.op = "br_if" /\ ~panicked
    /\ Lo(PreStack[Len(PreStack)]) # 0
    /\ last.instr.args = 2
    /\ Len(control_stack) = Len(PreFrames) - 3

\* C9: return removes every frame down to and including the nearest Call
\* frame and none below, as `br` with the number of frames above that Call
\* frame does, and the function's results end on top of the caller's
\* operands.
C9_Return ==
    (last.op = "return" /\ ~panicked /\ CallFrames(PreFrames) # {}) =>
        LET j == MaxOf(CallFrames(PreFrames))
            cf == PreFrames[j]
        IN  /\ control_stack = Below(PreFrames, j - 1)
            /\ operand_stack =
                   Below(PreStack, cf.bp) \o TopN(PreStack, NResults(cf))
            /\ VM = br(FetchedOf(Pre), Len(PreFrames) - j)

\* return from inside an if inside a loop, in a callee above its caller's
\* frame
C9_Witness ==
    /\ last.op = "return" /\ ~panicked
    /\ Cardinality(CallFrames(PreFrames)) = 2
    /\ PreFrames[Len(PreFrames)].opcode = "if"
    /\ PreFrames[Len(PreFrames) - 1].opcode = "loop"
    /\ Len(control_stack) = Len(PreFrames) - 3

\* the call_indirect taken last had an index at or past the table's size, or
\* no table, or an unbound entry, or an entry of another type
IndirectMustTrap ==
    /\ last.op = "call_indirect"
    /\ Len(PreStack) > 0
    /\ LET i == u64_as_u32(PreStack[Len(PreStack)])
           t == last.instr.args
       IN  \/ ~IsSome(Pre.table)
           \/ i < 0
           \/ i >= Len(Unwrap(Pre.table).elems)
           \/ LET f == At(Unwrap(Pre.table).elems, i)
              IN  \/ (~IsSome(f.code) /\ ~IsSome(f.native_func))
                  \/ f.func_type # At(module.type_sec, t)

\* C10: call_indirect traps, and enters no frame, whenever the index is at
\* or past the table's size, there is no table, the entry is unbound, or the
\* entry's type is not the type of the instruction.
C10_CallIndirectTraps ==
    IndirectMustTrap =>
        /\ panicked
        /\ control_stack = FetchedOf(Pre).control_stack
        /\ operand_stack = Below(PreStack, Len(PreStack) - 1)

\* the index equals the table's size
C10_Witness ==
    /\ IndirectMustTrap /\ panicked
    /\ IsSome(Pre.table)
    /\ Lo(PreStack[Len(PreStack)]) = Len(Unwrap(Pre.table).elems)

\* the function indices the element segments place at table slot i
Installed(i) ==
    { e.init[i - e.offset[1].args + 1] :
        e \in { x \in {module.elem_sec[k] : k \in 1..Len(module.elem_sec)} :
                  /\ x.offset[1].args <= i
                  /\ i < x.offset[1].args + Len(x.init) } }

\* the call_indirect taken last found function f installed at the popped
\* index, with the type of the instruction
IndirectHits(f) ==
    /\ last.op = "call_indirect"
    /\ Len(PreStack) > 0
    /\ IsSome(Pre.table)
    /\ f \in Installed(u64_as_u32(PreStack[Len(PreStack)]))
    /\ At(Pre.vm_funcs, f).func_type = At(module.type_sec, last.instr.args)

\* C11: call_indirect t with the index of a slot where an element segment
\* installed f, t being f's type, acts on the operand stack, the control
\* stack and local_0_idx as `call f` does once the index is popped.
C11_IndirectAsDirect ==
    \A f \in 0..(Len(vm_funcs) - 1) :
        IndirectHits(f) =>
            LET direct == call(pop_u64(FetchedOf(Pre)), f)
            IN  /\ operand_stack = direct.operand_stack
                /\ control_stack = direct.control_stack
                /\ local_0_idx = direct.local_0_idx
                /\ panicked = direct.panicked

\* an internal function with a parameter and a result is entered through
\* the table
C11_Witness ==
    /\ ~panicked
    /\ \E f \in 0..(Len(vm_funcs) - 1) :
           /\ IndirectHits(f)
           /\ IsSome(At(vm_funcs, f).code)
           /\ Len(At(vm_funcs, f).func_type.params_types) = 1
    /\ Len(control_stack) = Len(PreFrames) + 1
    /\ control_stack[Len(control_stack)].bp = Len(PreStack) - 2

\* main_loop has returned only with the entry function's frame popped; as
\* long as it runs, that frame is the bottom one
LoopEndsWithEntryFrame ==
    /\ pc = "done" => (~panicked /\ depth = 1 /\ control_stack = <<>>)
    /\ (pc = "loop" /\ ~panicked /\ control_stack # <<>>) =>
           (depth = 1 /\ control_stack[1].opcode = "call")

\* one iteration of main_loop, and nothing after the loop
LoopStep ==
    /\ (pc = "loop" /\ ~panicked /\ Len(control_stack) >= depth) =>
           /\ pc' = "loop"
           /\ IF top_control_frame(VM).pc = Len(top_control_frame(VM).instrs)
              THEN /\ last'.op = "exit_block"
                   /\ VM' = exit_block(VM)
              ELSE /\ last'.instr = CurInstr
                   /\ VM' = exec_instr(Fetched, CurInstr)
    /\ (pc = "loop" /\ ~panicked /\ Len(control_stack) < depth) =>
           /\ pc' = "done"
           /\ last'.op = "main_loop_return"
           /\ VM' = VM
    /\ pc # "done"

\* C12: while the control-stack depth is at least the depth recorded at loop
\* entry main_loop performs one step (exit_block at the end of the top
\* frame's body, otherwise fetch, pc += 1, dispatch); it returns when the
\* depth drops below the recorded one, which is when the entry function's
\* Call frame has been popped, and nothing is dispatched after that.
C12_MainLoop == [] LoopEndsWithEntryFrame /\ [][LoopStep]_vars

\* the loop has returned after a nested call came back to the entry
\* function, whose own return emptied the control stack
C12_Witness ==
    /\ pc = "done"
    /\ control_stack = <<>>
    /\ last.pre.control_stack = <<>>
    /\ input.entry = F_RECMAIN

\* the loop-sum run never traps; local 0 holds 55 when the loop's frame is
\* left; the host's assert is called with 55 and 55 and returns
SumSafe ==
    input.entry = F_SUM =>
        /\ ~panicked
        /\ (last.op = "exit_block" /\ PreFrames[Len(PreFrames)].opcode = "loop")
               => get_operand(VM, local_0_idx) = i32_as_u64(55)
        /\ (last.op = "call" /\ last.instr.args = F_ASSERT_EQ_I32)
               => /\ TopN(PreStack, 2) = << i32_as_u64(55), i32_as_u64(55) >>
                  /\ operand_stack = Below(PreStack, Len(PreStack) - 2)

SumDone == pc = "done" /\ ~panicked /\ control_stack = <<>>

\* C13: the entry function that sums 1..=10 in local 0 with a loop and a
\* br_if back-edge terminates without a trap, local 0 is 55 when the loop is
\* left, and assert_eq_i32 on it does not abort.
C13_LoopSum == [] SumSafe /\ ((input.entry = F_SUM) ~> SumDone)

\* the loop-sum run has returned, its last instruction the host's assert
C13_Witness ==
    /\ input.entry = F_SUM
    /\ SumDone
    /\ last.op = "main_loop_return"
    /\ operand_stack = <<>>

\* positions in the export section of the function exports named `main`
FuncMains ==
    { k \in 1..Len(module.export_sec) :
        /\ module.export_sec[k].name = "main"
        /\ module.export_sec[k].desc.tag = "Func" }

\* C14: exec_main calls the start function when the module declares one,
\* whatever it exports; otherwise the function exported as `main` (an export
\* `main` of another kind does not count); with neither it aborts, and no
\* instruction of a function body is dispatched.
C14_EntrySelection ==
    /\ last.op = "call_entry" =>
           IF IsSome(module.start_sec)
           THEN VM = call(Pre, Unwrap(module.start_sec))
           ELSE IF FuncMains # {}
           THEN VM = call(Pre,
                     module.export_sec[CHOOSE k \in FuncMains :
                         \A j \in FuncMains : k <= j].desc.idx)
           ELSE panicked /\ control_stack = <<>>
    /\ (~IsSome(module.start_sec) /\ FuncMains = {}) =>
           /\ last.op \in {"new", "init_memory", "init_globals", "init_funcs",
                           "init_table", "call_entry"}
           /\ control_stack = <<>>

\* a start function is entered although another function is exported as
\* `main`
C14_Witness ==
    /\ last.op = "call_entry" /\ ~panicked
    /\ IsSome(module.start_sec)
    /\ \E k \in FuncMains :
           module.export_sec[k].desc.idx # Unwrap(module.start_sec)
    /\ Len(control_stack) = 1
    /\ control_stack[1].instrs
           = Unwrap(At(vm_funcs, Unwrap(module.start_sec)).code).expr

\* the value of a constant expression `i32.const k`
ConstExprValue(expr) == i32_as_u64(expr[1].args)

\* the registry holds every function import and every internal function
RegistryBuilt(vm) ==
    Len(vm.vm_funcs) =
        Cardinality({k \in 1..Len(module.import_sec) :
                        module.import_sec[k].desc.tag = "Func"})
        + Len(module.func_sec)

GlobalsInitialised(vm) == Len(vm.globals) = Len(module.global_sec)

\* every data segment with a constant offset is in the memory
DataWritten(vm) ==
    \A k \in 1..Len(module.data_sec) :
        LET d == module.data_sec[k]
        IN  d.offset[1].opcode = "i32.const" =>
                \A j \in 1..Len(d.init) :
                    Memory_byte(vm.memory, d.offset[1].args + j - 1) = d.init[j]

\* C15: the registry is built first, then the globals are initialised, then
\* the data segments are written, then the table is set up; a data segment
\* whose offset expression reads a global is written at the global's
\* initial value.
C15_InitOrder ==
    /\ last.op = "init_funcs" =>
           Pre.globals = <<>> /\ ~IsSome(Pre.table)
    /\ last.op = "init_globals" =>
           RegistryBuilt(Pre) /\ ~IsSome(Pre.table)
    /\ last.op = "init_memory" =>
           /\ RegistryBuilt(Pre) /\ GlobalsInitialised(Pre) /\ ~IsSome(Pre.table)
           /\ \A k \in 1..Len(module.data_sec) :
                  LET d == module.data_sec[k]
                  IN  d.offset[1].opcode = "global.get" =>
                          /\ ~panicked
                          /\ \A j \in 1..Len(d.init) :
                                 Memory_byte(memory,
                                     Lo(ConstExprValue(
                                         module.global_sec[d.offset[1].args + 1].init_expr))
                                     + j - 1) = d.init[j]
    /\ last.op = "init_table" =>
           RegistryBuilt(Pre) /\ GlobalsInitialised(Pre) /\ DataWritten(Pre)


\* ---- C16
FuncImports == SelectSeq(module.import_sec, LAMBDA imp : imp.desc.tag = "Func")

\* C16: function index space.  With m the number of function imports (from
\* any import module name, in import order), registry entry i < m is the i-th
\* imported function and entry m + j is the internal function of type
\* type_sec[func_sec[j]] and code code_sec[j]; imports that are not functions
\* occupy no index.
C16_FuncIndexSpace ==
    (last.op = "init_funcs" /\ ~VM.panicked) =>
        LET m == Len(FuncImports)
        IN  /\ Len(VM.vm_funcs) = m + Len(module.func_sec)
            /\ \A i \in 0..(m - 1) :
                   At(VM.vm_funcs, i) =
                       new_external_func(
                           At(module.type_sec, At(FuncImports, i).desc.idx),
                           At(FuncImports, i).member_name)
            /\ \A j \in 0..(Len(module.func_sec) - 1) :
                   At(VM.vm_funcs, m + j) =
                       new_internal_func(
                           At(module.type_sec, At(module.func_sec, j)),
                           At(module.code_sec, j))

\* ---- C17
\* the step called a host assertion with its arguments on the stack
HostAssertCalled ==
    /\ last.op = "call"
    /\ last.instr.args \in HostAsserts
    /\ Len(PreStack) >=
           Len(At(module.type_sec,
                  At(FuncImports, last.instr.args).desc.idx).params_types)

\* the asserted condition of that call is violated
AssertViolated ==
    LET name == At(FuncNames, last.instr.args)
        x == PreStack[Len(PreStack) - 1]
        y == PreStack[Len(PreStack)]
    IN  IF name = "assert_true" THEN u64_as_i32(y) = 0
        ELSE IF name = "assert_false" THEN u64_as_i32(y) # 0
        ELSE IF name = "assert_eq_i32" THEN u64_as_i32(x) # u64_as_i32(y)
        ELSE IF name = "assert_eq_i64" THEN x # y
        ELSE IF name = "assert_eq_f32" THEN ~f32_eq(u64_as_u32(x), u64_as_u32(y))
        ELSE ~f64_eq(x, y)

\* C17: a call of a host assertion aborts if and only if the asserted
\* condition is violated (assert_true(c): c = 0; assert_false(c): c # 0;
\* assert_eq_*(a, b): a # b); when the condition holds the call returns
\* normally, having popped its arguments and pushed nothing.
C17_HostAsserts ==
    HostAssertCalled =>
        LET n == Len(At(module.type_sec,
                        At(FuncImports, last.instr.args).desc.idx).params_types)
        IN  /\ VM.panicked <=> AssertViolated
            /\ ~AssertViolated =>
                   /\ VM.operand_stack = Below(PreStack, Len(PreStack) - n)
                   /\ VM.control_stack = FetchedOf(Pre).control_stack

\* ---- C18, C19, C20
\* the step executed memory.grow with its operand on the stack
GrowStep == last.op = "memory.grow" /\ Len(PreStack) > 0
\* the page count asked for, a u32 as its signed twin
GrowN == u64_as_u32(PreStack[Len(PreStack)])
OldPages == Pre.memory.len \div PAGE_SIZE
\* the declared maximum, or 65536 when none is declared
PageLimit ==
    IF IsSome(module.mem_sec[1].max) THEN Unwrap(module.mem_sec[1].max)
    ELSE MAX_PAGE_COUNT
GrowFits == GrowN >= 0 /\ OldPages + GrowN <= PageLimit

\* C18: a successful grow(n) (old + n <= max-or-65536) returns the old page
\* count, size() afterwards is old + n, the n * 65536 appended bytes are
\* zero and every byte that existed before keeps its value; grow(0) returns
\* the current size and changes nothing.
C18_GrowSucceeds ==
    (GrowStep /\ GrowFits) =>
        /\ ~VM.panicked
        /\ VM.operand_stack =
               Append(Below(PreStack, Len(PreStack) - 1), <<0, OldPages>>)
        /\ VM.memory.len = Pre.memory.len + GrowN * PAGE_SIZE
        /\ VM.memory.len \div PAGE_SIZE = OldPages + GrowN
        /\ \A a \in DOMAIN VM.memory.bytes :
               IF a \in DOMAIN Pre.memory.bytes
               THEN VM.memory.bytes[a] = Pre.memory.bytes[a]
               ELSE VM.memory.bytes[a] = 0
        /\ \A a \in DOMAIN Pre.memory.bytes :
               a < Pre.memory.len /\ a \in DOMAIN VM.memory.bytes
        /\ GrowN = 0 => VM.memory = Pre.memory

C18_Witness ==
    /\ GrowStep /\ GrowFits /\ GrowN = MaxGrow /\ ~VM.panicked
    /\ VM.memory.len = (OldPages + MaxGrow) * PAGE_SIZE
    /\ \E a \in DOMAIN VM.memory.bytes : VM.memory.bytes[a] = 254

\* C19: a failed growth (n > 0 and old + n above the declared maximum, or
\* above 65536 when none is declared) returns 2^32 - 1, leaves the bytes and
\* the page count unchanged and is not a trap; with min = 1 and max = 1,
\* `i32.const 1; memory.grow` leaves 0xFFFFFFFF on the stack and a following
\* memory.size pushes 1.
C19_GrowFails ==
    /\ (GrowStep /\ GrowN # 0 /\ ~GrowFits) =>
           /\ ~VM.panicked
           /\ VM.operand_stack =
                  Append(Below(PreStack, Len(PreStack) - 1), <<0, -1>>)
           /\ VM.memory = Pre.memory
    /\ (/\ last.op = "memory.size"
        /\ input.entry = F_MEM /\ input.g1 = 1
        /\ module.mem_sec[1] = [min |-> 1, max |-> Some(1)]) =>
           /\ ~VM.panicked
           /\ VM.operand_stack = << <<0, -1>>, <<0, 1>> >>

C19_Witness ==
    /\ last.op = "memory.size"
    /\ input.entry = F_MEM /\ input.g1 = 1
    /\ module.mem_sec[1] = [min |-> 1, max |-> Some(1)]
    /\ FetchedOf(Pre).control_stack = VM.control_stack
    /\ TopN(VM.operand_stack, 2) = << <<0, -1>>, <<0, 1>> >>

\* C20: in every reachable state the byte length of the memory is a
\* multiple of 65536 and the page count p satisfies
\* min <= p <= (declared max, or 65536 when none is declared).
C20_PageCount ==
    /\ memory.len % PAGE_SIZE = 0
    /\ module.mem_sec[1].min <= memory.len \div PAGE_SIZE
    /\ memory.len \div PAGE_SIZE <= PageLimit

C20_Witness ==
    /\ last.op = "i32.load" /\ ~VM.panicked
    /\ last.instr.args.offset = PAGE_SIZE
    /\ memory.len \div PAGE_SIZE = PageLimit
    /\ memory.len \div PAGE_SIZE > module.mem_sec[1].min
    /\ Pre.memory.len = memory.len

\* ---- C21, C22
\* the step executed a load or a store with its operands on the stack
LoadStep == last.op \in LoadOps /\ Len(PreStack) >= 1
StoreStep == last.op \in StoreOps /\ Len(PreStack) >= 2
\* the dynamic address popped (a u32 as its signed twin: negative stands for
\* 2^31 or more), the static offset and the width of the access
AccessBase ==
    IF last.op \in LoadOps THEN u64_as_u32(PreStack[Len(PreStack)])
    ELSE u64_as_u32(PreStack[Len(PreStack) - 1])
AccessOffset == last.instr.args.offset
\* a + o + w > memory length, no wrap-around (lengths are below 2^31 here)
AccessBeyond ==
    \/ AccessBase < 0
    \/ AccessBase + AccessOffset + AccessWidth(last.op) > Pre.memory.len

PushedBy(instr) == IF instr.opcode = "i32.const" THEN <<0, instr.args>> ELSE
                   IF instr.opcode = "f32.const" THEN <<0, instr.args>> ELSE instr.args
\* the value a load of opcode ld pushes when the w bytes at its address are
\* the low w bytes of slot: an i32 for the i32 and f32 loads, else a slot
Loaded(ld, slot) ==
    LET b == Lo(slot) % 256
        h == Lo(slot) % 65536
    IN  IF ld = "i32.load8_s" THEN (IF b >= 128 THEN b - 256 ELSE b)
        ELSE IF ld = "i32.load8_u" THEN b
        ELSE IF ld = "i32.load16_s" THEN (IF h >= 32768 THEN h - 65536 ELSE h)
        ELSE IF ld = "i32.load16_u" THEN h
        ELSE IF ld \in {"i32.load", "f32.load"} THEN Lo(slot)
        ELSE IF ld = "i64.load8_s" THEN (IF b >= 128 THEN <<-1, b - 256>> ELSE <<0, b>>)
        ELSE IF ld = "i64.load8_u" THEN <<0, b>>
        ELSE IF ld = "i64.load16_s" THEN (IF h >= 32768 THEN <<-1, h - 65536>> ELSE <<0, h>>)
        ELSE IF ld = "i64.load16_u" THEN <<0, h>>
        ELSE IF ld = "i64.load32_s" THEN <<IF Lo(slot) < 0 THEN -1 ELSE 0, Lo(slot)>>
        ELSE IF ld = "i64.load32_u" THEN <<0, Lo(slot)>>
        ELSE slot
\* the value on top of the stack, as Loaded gives it
TopAs(ld, slot) ==
    IF ld \in {"i32.load8_s", "i32.load8_u", "i32.load16_s", "i32.load16_u",
               "i32.load", "f32.load"}
    THEN u64_as_i32(slot) ELSE slot
\* the step is the load of a program that stored, by its first three
\* instructions, the same width at the same address
LoadAfterStore ==
    /\ LoadStep /\ ~VM.panicked
    /\ Len(PreFrames) = 1 /\ PreFrames[1].pc = 4
    /\ PreFrames[1].instrs[3].opcode \in StoreOps
    /\ AccessWidth(PreFrames[1].instrs[3].opcode) = AccessWidth(last.op)
    /\ PreFrames[1].instrs[3].args = last.instr.args
    /\ PreFrames[1].instrs[1] = PreFrames[1].instrs[4]

\* C22: after an in-bounds store of width w at effective address e, a load
\* of the same width at e pushes the stored low w bytes, sign-extended for
\* the _s loads and zero-extended for the _u and full-width loads; the store
\* changes no byte outside [e, e + w).
C22_StoreLoad ==
    /\ LoadAfterStore =>
           TopAs(last.op, VM.operand_stack[Len(VM.operand_stack)]) =
               Loaded(last.op, PushedBy(PreFrames[1].instrs[2]))
    /\ (StoreStep /\ ~VM.panicked) =>
           \A a \in (DOMAIN VM.memory.bytes) \cup (DOMAIN Pre.memory.bytes) :
               \/ /\ a >= AccessBase + AccessOffset
                  /\ a < AccessBase + AccessOffset + AccessWidth(last.op)
               \/ Memory_byte(VM.memory, a) = Memory_byte(Pre.memory, a)

C22_Witness ==
    /\ LoadAfterStore /\ last.op = "i64.load16_s"
    /\ VM.operand_stack = << <<-1, -31868>> >>
    /\ Memory_byte(VM.memory, 8) = 1

\* ---- C23
\* the value of the most recent `global.set i` among the first n
\* instructions of a straight-line program whose sets follow constants, or
\* the initial value of global i
RECURSIVE MostRecentSet(_, _, _)
MostRecentSet(instrs, n, i) ==
    IF n = 0 THEN ConstExprValue(At(module.global_sec, i).init_expr)
    ELSE IF instrs[n].opcode = "global.set" /\ instrs[n].args = i
         THEN i32_as_u64(instrs[n - 1].args)
         ELSE MostRecentSet(instrs, n - 1, i)

GlobalsReady == pc \notin {"init_memory", "init_globals"} /\ Len(globals) = Len(module.global_sec)

\* C23: after initialisation an immutable global never changes, and
\* global.set on it aborts leaving its value; for a mutable global,
\* global.get i returns the value of the most recent global.set i (or the
\* initial value), and a set of global i changes no other global.
C23_Globals ==
    /\ GlobalsReady =>
           \A k \in 1..Len(globals) :
               ~globals[k].global_type.mutable =>
                   globals[k].val = ConstExprValue(module.global_sec[k].init_expr)
    /\ (last.op = "global.set" /\ Len(PreStack) > 0) =>
           IF At(Pre.globals, last.instr.args).global_type.mutable
           THEN /\ ~VM.panicked
                /\ At(VM.globals, last.instr.args).val = PreStack[Len(PreStack)]
                /\ \A k \in 1..Len(globals) :
                       k # last.instr.args + 1 => VM.globals[k] = Pre.globals[k]
           ELSE VM.panicked /\ VM.globals = Pre.globals
    /\ last.op = "global.get" =>
           /\ ~VM.panicked
           /\ VM.globals = Pre.globals
           /\ VM.operand_stack =
                  Append(PreStack,
                         MostRecentSet(PreFrames[1].instrs, PreFrames[1].pc,
                                       last.instr.args))

C23_Witness ==
    /\ last.op = "global.get" /\ last.instr.args = 2
    /\ PreFrames[1].pc = 14
    /\ VM.operand_stack = << <<-1, -MaxArg>> >>
    /\ At(VM.globals, 0).val = <<0, 3>>

\* C24: a value pushed with push_T comes back from the matching pop_T as the
\* same value and the depth is what it was before the push; a sequence of
\* pushes of mixed types is popped back in exact reverse order and ends at
\* the starting depth.
C24_TypedRoundTrip ==
    /\ last.op = "push" =>
         /\ Len(operand_stack) = Len(PreStack) + 1
         /\ Below(operand_stack, Len(PreStack)) = PreStack
    /\ last.op = "pop" =>
         /\ last.instr = ValOf(input.pushes[Len(PreStack)])
         /\ operand_stack = Below(PreStack, Len(PreStack) - 1)
         /\ ~panicked
    /\ pc = "done" => operand_stack = <<>>

\* an i32 of -2 came back from under an f64 pushed after it
C24_Witness ==
    /\ last.op = "pop"
    /\ last.instr.ty = "i32"
    /\ last.instr.val = -2
    /\ Len(input.pushes) = 2
    /\ input.pushes[2].ty = "f64"
    /\ pc = "done"


\* C25: after push_i32(v) or push_u32(v), for any v including a negative
\* i32, the high 32 bits of the slot pushed are zero and its low 32 bits are
\* the bits of v, so the slot read raw as 64 bits is below 2^32.
C25_ZeroExtended ==
    (last.op = "push" /\ last.instr.ty \in {"i32", "u32"}) =>
        /\ Hi(operand_stack[Len(operand_stack)]) = 0
        /\ Lo(operand_stack[Len(operand_stack)]) = last.instr.val


\* the instruction before the one the last step executed, in straight-line
\* code of the function's frame
PrevInstr == PreFrames[1].instrs[PreFrames[1].pc]
\* the slot of local i in a stack
LocalSlot(vm, i) == vm.local_0_idx + i + 1

\* the value local i holds after the first n instructions of a straight-line
\* program whose local.set and local.tee follow constants: that of the most
\* recent write, or the zero a local starts with
RECURSIVE MostRecentLocal(_, _, _)
MostRecentLocal(instrs, n, i) ==
    IF n = 0 THEN <<0, 0>>
    ELSE IF instrs[n].opcode \in {"local.set", "local.tee"} /\ instrs[n].args = i
         THEN i32_as_u64(instrs[n - 1].args)
         ELSE MostRecentLocal(instrs, n - 1, i)

\* C26: `local.tee i` leaves its operand on top, writes it to local i and
\* changes no other slot; a `local.get i` that follows it pushes that value
\* again, so the teed value is twice on top at depth one more than before
\* the tee, local i holds it, and nothing else changed; a local read back
\* gives the value written to it last.
C26_TeeGet ==
    /\ last.op = "local.tee" =>
           /\ ~VM.panicked
           /\ Len(operand_stack) = Len(PreStack)
           /\ operand_stack[Len(operand_stack)] = PreStack[Len(PreStack)]
           /\ operand_stack[LocalSlot(VM, last.instr.args)] = PreStack[Len(PreStack)]
           /\ \A k \in 1..Len(PreStack) :
                  k # LocalSlot(VM, last.instr.args) => operand_stack[k] = PreStack[k]
    /\ (/\ last.op = "local.get"
        /\ PreFrames[1].pc > 0
        /\ PrevInstr.opcode = "local.tee"
        /\ PrevInstr.args = last.instr.args) =>
           /\ ~VM.panicked
           /\ Len(operand_stack) = Len(PreStack) + 1
           /\ Below(operand_stack, Len(PreStack)) = PreStack
           /\ TopN(operand_stack, 2) =
                  <<PreStack[Len(PreStack)], PreStack[Len(PreStack)]>>
           /\ operand_stack[LocalSlot(VM, last.instr.args)] =
                  operand_stack[Len(operand_stack)]
    /\ last.op = "local.get" =>
           operand_stack =
               Append(PreStack,
                      MostRecentLocal(PreFrames[1].instrs, PreFrames[1].pc,
                                      last.instr.args))

\* local 2 teed with -1 while local 0 holds 3: -1 twice on top of the
\* operand -2
C26_Witness ==
    /\ last.op = "local.get" /\ last.instr.args = 2
    /\ PreFrames[1].pc = 5
    /\ operand_stack = << <<0, 3>>, <<0, 0>>, <<-1, -1>>,
                           <<-1, -2>>, <<-1, -1>>, <<-1, -1>> >>

\* the width in bytes of the operands of an integer instruction
OpWidth(op) == IF op \in I32Ops THEN 4 ELSE 8
\* the operands v1 and v2 of the binary instruction executed last, and its
\* result, as bytes
Operand1 == operand_bytes(PreStack[Len(PreStack) - 1], OpWidth(last.op))
Operand2 == operand_bytes(PreStack[Len(PreStack)], OpWidth(last.op))
ResultBytes == operand_bytes(operand_stack[Len(operand_stack)], OpWidth(last.op))
\* the instruction executed last popped its two operands and pushed a result
BinaryDone ==
    /\ ~panicked
    /\ Len(operand_stack) = Len(PreStack) - 1
    /\ Below(operand_stack, Len(PreStack) - 2) = Below(PreStack, Len(PreStack) - 2)
\* the instruction executed last popped its two operands and aborted
BinaryTrapped ==
    /\ panicked
    /\ operand_stack = Below(PreStack, Len(PreStack) - 2)

\* x shifted or rotated by k bits, 0 <= k < bit-width
Shifted(op, x, k) ==
    CASE op \in {"i32.shl", "i64.shl"} -> bytes_shl(x, k)
      [] op \in {"i32.shr_s", "i64.shr_s"} -> bytes_shr_s(x, k)
      [] op \in {"i32.shr_u", "i64.shr_u"} -> bytes_shr_u(x, k)
      [] op \in {"i32.rotl", "i64.rotl"} -> bytes_rotl(x, k)
      [] op \in {"i32.rotr", "i64.rotr"} -> bytes_rotr(x, k)

\* C27: a shift or rotation by any amount a, at or beyond the bit-width or
\* with the sign bit set, never traps and gives the result of the same
\* operation by a mod bit-width.
C27_ShiftModulo ==
    last.op \in ShiftOps =>
        /\ BinaryDone
        /\ ResultBytes =
               Shifted(last.op, Operand1, Operand2[1] % (8 * OpWidth(last.op)))


\* x, y, q and r widened (sign-extended when signed) to twice their width,
\* where no product or difference of them overflows
Wide(a, signed) ==
    IF signed THEN bytes_sext(a, 2 * Len(a)) ELSE bytes_zext(a, 2 * Len(a))
\* r is what is left of x by y when the quotient is truncated toward zero:
\* smaller than y in magnitude, and zero or of the sign of x
LeftOver(r, x, y) ==
    /\ ~bytes_ge(bytes_abs(r), bytes_abs(y))
    /\ bytes_is_zero(r) \/ bytes_sign(r) = bytes_sign(x)
\* q is the quotient of x by y truncated toward zero: x - q * y is left over
IsQuotient(q, x, y, signed) ==
    LeftOver(bytes_sub(Wide(x, signed), bytes_mul(Wide(q, signed), Wide(y, signed))),
             Wide(x, signed), Wide(y, signed))
\* r is the remainder of x by y: left over, with x - r a multiple of y
IsRemainder(r, x, y, signed) ==
    /\ LeftOver(Wide(r, signed), Wide(x, signed), Wide(y, signed))
    /\ bytes_is_zero(
           bytes_divrem(bytes_abs(bytes_sub(Wide(x, signed), Wide(r, signed))),
                        bytes_abs(Wide(y, signed))).r)

SignedDivOps == {"i32.div_s", "i32.rem_s", "i64.div_s", "i64.rem_s"}
QuotientOps == {"i32.div_s", "i32.div_u", "i64.div_s", "i64.div_u"}
\* the division executed last is one the claim says traps
DivTraps ==
    \/ bytes_is_zero(Operand2)
    \/ /\ last.op \in SignedDivOps
       /\ bytes_is_min(Operand1)
       /\ bytes_is_minus_one(Operand2)

\* C28: div_s and rem_s trap when the divisor is 0 and when the operands are
\* MIN and -1, div_u and rem_u only when the divisor is 0; a trap aborts and
\* pushes nothing; otherwise the quotient, or the remainder, of the division
\* truncated toward zero is pushed.
C28_Division ==
    last.op \in DivOps =>
        IF DivTraps THEN BinaryTrapped
        ELSE /\ BinaryDone
             /\ IF last.op \in QuotientOps
                THEN IsQuotient(ResultBytes, Operand1, Operand2,
                                last.op \in SignedDivOps)
                ELSE IsRemainder(ResultBytes, Operand1, Operand2,
                                 last.op \in SignedDivOps)

\* -7 divided by 2 gave -3
C28_Witness ==
    /\ last.op = "i64.div_s"
    /\ PreStack = << <<-1, -7>>, <<0, 2>> >>
    /\ operand_stack = << <<-1, -3>> >>


\* the exact sum, difference or product of x and y, at twice their width
Exact(op, x, y) ==
    CASE op \in {"i32.add", "i64.add"} -> bytes_add(Wide(x, TRUE), Wide(y, TRUE), 0)
      [] op \in {"i32.sub", "i64.sub"} -> bytes_sub(Wide(x, TRUE), Wide(y, TRUE))
      [] op \in {"i32.mul", "i64.mul"} -> bytes_mul(Wide(x, TRUE), Wide(y, TRUE))

\* C29: i32 and i64 add, sub and mul never trap; the result pushed is the
\* exact result modulo 2^32 (2^64), also when the exact result is outside
\* the signed range.
C29_Wraps ==
    last.op \in AddOps =>
        /\ BinaryDone
        /\ ResultBytes =
               SubSeq(Exact(last.op, Operand1, Operand2), 1, OpWidth(last.op))


\* the operand of the truncation executed last, taken apart
TruncOperand ==
    IF last.op \in F32TruncOps THEN f32_parts(Lo(PreStack[Len(PreStack)]))
    ELSE f64_parts(PreStack[Len(PreStack)])
\* the operand truncated toward zero lies outside the range of the
\* destination: of bits-1 bits and a sign, or of bits bits and no sign
TruncOutOfRange ==
    LET f == TruncOperand
        bits == 8 * OpWidth(last.op)
        signed == last.op \in {"i32.trunc_f32_s", "i32.trunc_f64_s",
                               "i64.trunc_f32_s", "i64.trunc_f64_s"}
    IN  IF signed
        THEN /\ magnitude_ge(f, bits - 1)
             /\ ~(/\ f.neg /\ f.e = bits - 1
                  /\ bytes_is_min(SubSeq(trunc_magnitude(f), 1, OpWidth(last.op))))
        ELSE \/ magnitude_ge(f, bits)
             \/ f.neg /\ f.e >= 0 /\ ~f.nan

\* C30: a trapping truncation traps when its operand is a NaN or when the
\* operand truncated toward zero is outside the destination's range, and
\* pushes a value only for an operand in range.
C30_TruncTraps ==
    last.op \in TruncOps =>
        IF TruncOperand.nan \/ TruncOutOfRange
        THEN panicked /\ operand_stack = Below(PreStack, Len(PreStack) - 1)
        ELSE ~panicked /\ Len(operand_stack) = Len(PreStack)

\* ---- C31: section ordering in the decoder
IsNonCustom(id) == id # SEC_CUSTOM_ID
NonCustom(ids) == SelectSeq(ids, IsNonCustom)
\* the non-custom tags are strictly ascending and each at most SEC_DATA_ID
Ascending(tags) ==
    \A k \in 1..Len(tags) :
        /\ tags[k] <= SEC_DATA_ID
        /\ k > 1 => tags[k - 1] < tags[k]
Ordered(ids) == Ascending(NonCustom(ids))
Front(ids) == SubSeq(ids, 1, Len(ids) - 1)
LastOf(seq, default) == IF Len(seq) = 0 THEN default ELSE seq[Len(seq)]

\* C31: the decoder reads the sections of a file in the order they stand
\* in. While it has not aborted, the non-custom tags read so far are strictly
\* ascending and at most 11, prev_sec_id is the last of them, and every
\* custom section read, wherever it stood, is stored; it aborts exactly at
\* the first section whose non-custom tag is above 11 or not above the
\* non-custom tags before it; so it returns a Module only for a file whose
\* non-custom tags are strictly ascending and at most 11.
C31_SectionOrder ==
    pc = "decode_file" /\ decoder.at # "read_module" =>
        /\ Len(decoder.ids) <= Len(input.tags)
        /\ decoder.ids = SubSeq(input.tags, 1, Len(decoder.ids))
        /\ ~decoder.rd.panicked =>
               /\ Ordered(decoder.ids)
               /\ decoder.prev_sec_id = LastOf(NonCustom(decoder.ids), 0)
               /\ Len(decoder.module.custom_sec)
                      = Len(decoder.ids) - Len(NonCustom(decoder.ids))
        /\ decoder.rd.panicked =>
               /\ Ordered(Front(decoder.ids))
               /\ ~Ordered(decoder.ids)
        /\ decoder.at = "done" =>
               /\ ~decoder.rd.panicked
               /\ decoder.ids = input.tags
        /\ ~Ordered(input.tags) => decoder.at # "done"

\* a type section after a function section and a custom section: the
\* decoding aborts at the type section, the custom section is stored
C31_Witness ==
    /\ pc = "decode_file"
    /\ decoder.rd.panicked
    /\ decoder.ids = <<SEC_FUNC_ID, SEC_CUSTOM_ID, SEC_TYPE_ID>>
    /\ decoder.prev_sec_id = SEC_FUNC_ID
    /\ Len(decoder.module.custom_sec) = 1
    /\ Len(decoder.module.func_sec) = 1
    /\ Len(decoder.module.type_sec) = 0

\* ---- C32: magic and version
\* C32: decode_file returns a Module only for a file that begins with the
\* magic `\0asm` and the version 1.
C32_MagicChecked ==
    pc = "decode_file" /\ decoder.at = "done" =>
        /\ SubSeq(input.file, 1, 4) = u32_to_le_bytes(MAGIC_NUMBER)
        /\ SubSeq(input.file, 5, 8) = u32_to_le_bytes(VERSION)

\* ---- C33: LEB128 decoding
LebDecoded == last.op \in {"decode_var_uint", "decode_var_int"}
\* C33: decode_var_uint and decode_var_int, given the canonical encoding e
\* of v followed by any bytes, return (v, |e|): the value encoded and the
\* length of the encoding, without reading the bytes after it.
C33_LebRoundTrip ==
    LebDecoded => last.instr = Decoded(input.leb.v, input.leb.n, FALSE)

\* ---- C34: the frame effect of a host call
\* the function a `call` instruction named, and whether it is a host function
Callee == At(last.pre.vm_funcs, last.instr.args)
HostCalled ==
    /\ last.op = "call"
    /\ last.instr.args >= 0 /\ last.instr.args < Len(last.pre.vm_funcs)
    /\ IsSome(Callee.native_func)
\* what the adapter of the callee was given and what it returned
AdapterArgs == pop_args(Pre, Callee.func_type)
AdapterResults == native_call(Unwrap(Callee.native_func), AdapterArgs).results

\* C34: a call of a host function with p parameters that returns has popped
\* exactly p slots and pushed exactly the results its adapter returned; the
\* number of control frames, each frame's pc (as fetched) and bp, and
\* local_0_idx are as before the call.
C34_HostCallFrame ==
    HostCalled /\ ~panicked =>
        LET p == Len(Callee.func_type.params_types)
        IN  /\ Len(PreStack) >= p
            /\ Len(operand_stack) = Len(PreStack) - p + Len(AdapterResults)
            /\ Below(operand_stack, Len(PreStack) - p)
                   = Below(PreStack, Len(PreStack) - p)
            /\ Len(control_stack) = Len(PreFrames)
            /\ control_stack = FetchedOf(Pre).control_stack
            /\ local_0_idx = last.pre.local_0_idx

\* assert_eq_i64 of two equal operands has returned: its two operands are
\* gone, the operand below them is left, the one Call frame is still the top
C34_Witness ==
    /\ HostCalled /\ ~panicked
    /\ last.instr.args = FuncIdx("assert_eq_i64")
    /\ TopN(PreStack, 2) = << <<1, 0>>, <<1, 0>> >>
    /\ operand_stack = << i32_as_u64(7) >>
    /\ Len(control_stack) = 1
    /\ control_stack[1].opcode = "call"
    /\ local_0_idx = 0

\* ---- C35: host argument marshalling
\* C35: the adapter of a host function with the parameter types T0..Tp-1
\* is given a vector whose k-th element is the k-th argument the caller
\* pushed (the deepest of the p slots first) converted according to Tk.
C35_ArgsInOrder ==
    HostCalled /\ Len(PreStack) >= Len(Callee.func_type.params_types) =>
        LET pts == Callee.func_type.params_types
        IN  /\ Len(AdapterArgs) = Len(pts)
            /\ \A k \in 1..Len(pts) :
                   /\ AdapterArgs[k].ty = pts[k]
                   /\ AdapterArgs[k].val
                          = wrap_u64(pts[k],
                                     PreStack[Len(PreStack) - Len(pts) + k]).val

\* ---- C40: a host function as the entry function
EntryIsHost == input.entry \in HostFuncs /\ input.main = input.entry
\* C40: when the entry function is a host import, exec_main's call of it
\* runs the adapter and returns, and main_loop then returns without a step
\* and without a panic.
C40_HostEntry ==
    EntryIsHost =>
        /\ last.op = "call_entry" => ~panicked
        /\ pc = "loop" => ~panicked
        /\ last.op \in {"call_entry", "main_loop", "main_loop_return"}
               => control_stack = <<>>

\* ---- C36: entering an internal function
\* a `call` of an internal function whose arguments are on the stack
InternalCalled ==
    /\ last.op = "call"
    /\ last.instr.args >= 0 /\ last.instr.args < Len(last.pre.vm_funcs)
    /\ IsSome(Callee.code)
    /\ Len(PreStack) >= Len(Callee.func_type.params_types)
\* the number of locals the callee declares, summed over its groups
RECURSIVE SumOfCounts(_)
SumOfCounts(groups) ==
    IF Len(groups) = 0 THEN 0 ELSE groups[1].n + SumOfCounts(Tail(groups))
DeclaredLocals == SumOfCounts(Unwrap(Callee.code).locals)

\* C36: a call of an internal function with p parameters and n declared
\* locals pushes one Call frame with pc 0 and bp = depth - p (local_0_idx
\* too) above the caller's frames and n zero slots above the arguments; the
\* depth is then bp + p + n, and `local.get i` executed next would read the
\* i-th argument for i < p and zero for p <= i < p + n.
C36_FunctionEntry ==
    InternalCalled =>
        LET p == Len(Callee.func_type.params_types)
            n == DeclaredLocals
            bp == Len(PreStack) - p
        IN  /\ ~panicked
            /\ Len(control_stack) = Len(PreFrames) + 1
            /\ Below(control_stack, Len(PreFrames)) = FetchedOf(Pre).control_stack
            /\ control_stack[Len(control_stack)].opcode = "call"
            /\ control_stack[Len(control_stack)].pc = 0
            /\ control_stack[Len(control_stack)].bp = bp
            /\ local_0_idx = bp
            /\ Len(operand_stack) = bp + p + n
            /\ Below(operand_stack, Len(PreStack)) = PreStack
            /\ \A i \in 0..(p + n - 1) :
                   /\ ~local_get(VM, i).panicked
                   /\ top_u64(local_get(VM, i))
                          = IF i < p THEN PreStack[bp + i + 1] ELSE ZeroSlot

\* loc with two parameters and three locals in two groups has been entered
\* with the arguments 1 and 2 above a foreign operand
C36_Witness ==
    /\ InternalCalled
    /\ last.instr.args = F_LOC
    /\ Len(Unwrap(Callee.code).locals) = 2
    /\ PreStack = << i32_as_u64(7), i32_as_u64(1), i32_as_u64(2) >>
    /\ operand_stack = << i32_as_u64(7), i32_as_u64(1), i32_as_u64(2),
                          ZeroSlot, ZeroSlot, ZeroSlot >>
    /\ control_stack[Len(control_stack)].bp = 1
    /\ Len(control_stack) = 2

\* ---- C37: the base pointers of the control stack
\* the base pointers do not decrease from the bottom frame to the top frame
BpsAscend(frames) ==
    \A k \in 2..Len(frames) : frames[k - 1].bp <= frames[k].bp
\* the step removed frames: a natural exit, a branch or a return
FramesRemoved ==
    /\ last.op \in {"exit_block", "br", "br_if", "br_table", "return"}
    /\ Len(control_stack) < Len(PreFrames)

\* C37: while a module runs, the base pointers of the frames on the control
\* stack never decrease from the bottom frame to the top frame; and a step
\* that removes frames leaves the operand stack at least as deep as the base
\* pointer of every frame that remains.
C37_BpMonotone ==
    ~panicked =>
        /\ BpsAscend(control_stack)
        /\ FramesRemoved =>
               \A k \in 1..Len(control_stack) :
                   control_stack[k].bp <= Len(operand_stack)


\* ---- code after br_table: block { i32.const i; br_table {0} 0; tail } ---------
\* The function "test" pushes one operand, enters a block and executes
\* br_table with the index i; `tail` is the code that follows br_table in the
\* block (stack-polymorphic for validation, so any tail is well-formed).

DeadTails ==
    { <<>>,
      <<Nullary("drop")>>,
      <<Nullary("drop"), Instr("block", BlockArgs(BLOCK_TYPE_EMPTY, <<>>))>> }

DeadCode(i, tail) ==
    Code(<<>>,
      << Const(7),
         Instr("block", BlockArgs(BLOCK_TYPE_EMPTY,
           << Const(i), Instr("br_table", BrTableArgs(<<0>>, 0)) >> \o tail)),
         Nullary("drop") >>)

DeadInputs ==
    {[Run(F_TEST, FALSE) EXCEPT !.test = DeadCode(i, tail)] :
        i \in -1..MaxIdx, tail \in DeadTails}

DeadInit == Start(DeadInputs)

DeadNext ==
    \/ InitMemory
    \/ InitGlobals
    \/ InitFuncs
    \/ InitTable
    \/ CallEntry
    \/ MainLoopEnter
    \/ MainLoopReturn
    \/ ExitBlock
    \/ ExecI32Const
    \/ ExecDrop
    \/ ExecBlock
    \/ ExecBrTable

DeadSpec == DeadInit /\ [][DeadNext]_vars

\* ---- initialisation with any number of globals and segments ------------------
MaxSegs == 3

InitInputs ==
    {[Run(F_TEST, by_export) EXCEPT !.n_globals = g, !.n_data = d, !.n_elem = e,
                                    !.has_table = has_table,
                                    !.data_off_global = off] :
        g \in 0..MaxSegs, d \in 0..MaxSegs, e \in 0..MaxSegs,
        has_table \in BOOLEAN, off \in BOOLEAN, by_export \in BOOLEAN}

InitInit == Start(InitInputs)

InitNext ==
    \/ InitMemory
    \/ InitGlobals
    \/ InitFuncs
    \/ InitTable
    \/ CallEntry
    \/ MainLoopEnter
    \/ MainLoopReturn
    \/ ExitBlock

InitSpec == InitInit /\ [][InitNext]_vars

\* ---- C38: the stacks after initialisation
\* C38: when the four initialisers have run and the entry function has not
\* been called yet, the operand stack and the control stack are empty and one
\* global exists per entry of the global section, however many globals, data
\* segments and element segments the module has.
C38_InitLeavesStacksEmpty ==
    (pc = "call" /\ ~panicked) =>
        /\ operand_stack = <<>>
        /\ control_stack = <<>>
        /\ Len(globals) = Len(module.global_sec)

C38_Witness ==
    /\ pc = "call" /\ ~panicked
    /\ Len(module.global_sec) >= 2
    /\ Len(module.data_sec) >= 2
    /\ Len(module.elem_sec) >= 2
    /\ IsSome(table)
    /\ operand_stack = <<>>
    /\ control_stack = <<>>

\* ---- a caller with one local around a call --------------------------------
\* "test" keeps `a` in its local 0, calls "loc" and reads local 0 again;
\* "loc" (no parameters, no results) runs br_table with the index i in a
\* block, followed by `tail`.
FrameTails ==
    { <<>>,
      <<Nullary("drop"), Const(99), Nullary("return")>> }

FrameCallee(i, tail) ==
    Code(<<>>,
      << Instr("block", BlockArgs(BLOCK_TYPE_EMPTY,
           << Const(i), Instr("br_table", BrTableArgs(<<0>>, 0)) >> \o tail)) >>)

FrameMain(a) ==
    Code(<<Locals(1, "i32")>>,
      << Const(a), Instr("local.set", 0),
         Instr("call", F_LOC),
         Instr("local.get", 0), Nullary("drop") >>)

FrameInputs ==
    {[Run(F_TEST, FALSE) EXCEPT !.a = a, !.test = FrameMain(a),
                                !.loc = FrameCallee(i, tail)] :
        a \in 1..MaxArg, i \in -1..MaxIdx, tail \in FrameTails}

FrameInit == Start(FrameInputs)

FrameNext ==
    \/ InitMemory
    \/ InitGlobals
    \/ InitFuncs
    \/ InitTable
    \/ CallEntry
    \/ MainLoopEnter
    \/ MainLoopReturn
    \/ ExitBlock
    \/ ExecI32Const
    \/ ExecDrop
    \/ ExecLocalGet
    \/ ExecLocalSet
    \/ ExecBlock
    \/ ExecBrTable
    \/ ExecReturn
    \/ ExecCall

FrameSpec == FrameInit /\ [][FrameNext]_vars

\* ---- C39: a callee leaves its caller's frame alone
\* the step was taken with a function's call frame on the control stack
InFunction == CallFrames(PreFrames) # {} /\ ~last.pre.panicked
\* the base pointer of the function that took the step
RunningBp == PreFrames[MaxOf(CallFrames(PreFrames))].bp
\* the caller of FrameMain reads its local after the call has returned
CallerReadsLocal ==
    /\ last.op = "local.get"
    /\ input.test = FrameMain(input.a)
    /\ Cardinality(CallFrames(PreFrames)) = 1

\* C39: no step of a function changes an operand slot below the function's
\* base pointer (the slots of its callers), and when the callee has returned
\* the caller's `local.get 0` reads the value the caller stored before the
\* call.
C39_CallerFrameKept ==
    ~panicked =>
        /\ InFunction =>
               /\ Len(PreStack) >= RunningBp
               /\ Len(operand_stack) >= RunningBp
               /\ Below(operand_stack, RunningBp) = Below(PreStack, RunningBp)
        /\ CallerReadsLocal =>
               operand_stack[Len(operand_stack)] = i32_as_u64(input.a)

====
